---- MODULE Spec2Model ----
(***************************************************************************)
(* A model of the OOSIT backtesting system: the calendar-aligned Data      *)
(* Store (oosit_utils/data/manager.py), its index-relative accessor,       *)
(* data redirection, the indicator cache, and the Backtest Engine          *)
(* (oosit_utils/backtesting/engine.py) running the saved strategies.       *)
(*                                                                         *)
(* Dates are calendar day numbers 1..NumDays.  Python indices are kept     *)
(* 0-based as in the source; TLA+ sequences are indexed with idx + 1.      *)
(***************************************************************************)
EXTENDS Integers, Sequences, FiniteSets, TLC

VARIABLES
    \* ---- DataManager fields (manager.py 26-62)
    use_extended_data,
    redirect_dict,
    max_lookback_days,
    filenames,
    dataframes,
    data_arrays,
    date_arrays,
    metadata,
    daily_date_range,
    monthly_date_range,
    daily_data_start_index,
    monthly_data_start_index,
    original_dataframes_backup,
    original_daily_indices_backup,
    original_monthly_indices_backup,
    \* ---- the csv files DataValidator finds in data_directory, and how far
    \* ---- DataManager.__init__ has come (manager.py 65-89)
    data_directory,
    load_pc,       \* "new", "validated", "cached", "loaded" or "raised"
    \* ---- observation of the data store's history
    loaded,        \* the store as _load_data left it
    hist,          \* the operations run on the store so far, in order
    \* ---- StrategyManager fields (strategies/manager.py 32-41)
    target_config,
    default_strategies,      \* the keys of the dict, in insertion order
    test_strategies,
    default_strategy_names,
    test_strategy_names,
    \* ---- BacktestEngine.results (engine.py 56)
    results,
    \* ---- summary['rebalancing_log_df'] of the last call (engine.py 274)
    rebalancing_log_df,
    \* ---- the locals of a run_full_backtest call (engine.py 58-141)
    pc,                      \* "idle", "loop", "done" or "aborted"
    periods,
    all_strategies,          \* the keys of all_strategies, in order
    strategy_index,          \* the position of the for loop of line 94
    all_results,
    \* ---- observation of the calls made
    execute_strategy_calls,  \* per strategy, the periods it was run over
    \* ---- a backtest() call of the mode strategy (250703-1-2.py 24-210)
    frame,         \* its locals, <<>> while no call is under way
    bar            \* its start_date (0 for no call) and the next loop index i

storeVars == <<use_extended_data, redirect_dict, max_lookback_days,
               filenames, dataframes,
               data_arrays, date_arrays, metadata, daily_date_range,
               monthly_date_range, daily_data_start_index,
               monthly_data_start_index, original_dataframes_backup,
               original_daily_indices_backup, original_monthly_indices_backup>>

managerVars == <<target_config, default_strategies, test_strategies,
                 default_strategy_names, test_strategy_names>>

engineVars == <<results, rebalancing_log_df, pc, periods, all_strategies,
                strategy_index, all_results, execute_strategy_calls>>

loadVars == <<data_directory, load_pc>>

strategyVars == <<frame, bar>>

vars == <<storeVars, loadVars, strategyVars, loaded, hist, managerVars,
          engineVars>>

----------------------------------------------------------------------------
(* Bounds of the model *)

\* calendar days are 1..NumDays
NumDays == 9
\* relative indices an accessor is asked for are -MaxRel..MaxRel
MaxRel == 3
\* at most MaxOps redirection operations (apply, restore) are run on a store
MaxOps == 2
\* the reads that run as steps use relative indices -MaxReadRel..MaxReadRel:
\* what a read caches depends on its index only through the resolved index
\* being non-negative
MaxReadRel == 1
\* a float operation of the drawdown computation rounds its result to
\* MantissaBits significant bits (53 in the source's binary64)
MantissaBits == 8
\* a portfolio value series given to the metrics has at most MaxLen values
MaxLen == 3
\* load_all_strategies is called on a StrategyManager while its two name
\* lists hold fewer than MaxNames names
MaxNames == 4

----------------------------------------------------------------------------
(* Python data-structure semantics *)

Range(f) == {f[x] : x \in DOMAIN f}

\* a function restricted to / extended over keys, as dict operations
DictSet(d, k, v) == [x \in (DOMAIN d) \cup {k} |-> IF x = k THEN v ELSE d[x]]
DictUpdate(d, e) == [x \in (DOMAIN d) \cup (DOMAIN e) |->
                        IF x \in DOMAIN e THEN e[x] ELSE d[x]]
EmptyDict == [x \in {} |-> 0]

Ok(v) == [kind |-> "ok", v |-> v, msg |-> ""]
Raise(kind, msg) == [kind |-> kind, v |-> 0, msg |-> msg]
NegativeIndexError == Raise("IndexError", "Negative index")
OutOfBounds == Raise("IndexError", "out of bounds")

\* seq[idx] of a Python list, numpy array or .iloc: a negative idx counts
\* from the end, anything outside -len..len-1 raises IndexError
PyIndex(seq, idx) ==
    LET n == Len(seq) IN
    IF idx >= 0 /\ idx < n THEN Ok(seq[idx + 1])
    ELSE IF idx < 0 /\ idx >= -n THEN Ok(seq[n + idx + 1])
    ELSE OutOfBounds

\* seq[a:b] of Python for 0 <= a
PySlice(seq, a, b) ==
    LET hi == IF b > Len(seq) THEN Len(seq) ELSE b IN
    IF a >= hi THEN <<>> ELSE [j \in 1..(hi - a) |-> seq[a + j]]

----------------------------------------------------------------------------
(* Numbers: the float values of the program as exact fractions <<n, d>>,   *)
(* d > 0 and gcd(n, d) = 1; <<0, 0>> is NaN                                *)

RECURSIVE GCD(_, _)
GCD(a, b) == IF b = 0 THEN a ELSE GCD(b, a % b)

Abs(n) == IF n < 0 THEN 0 - n ELSE n

NaN == <<0, 0>>
IsNaN(x) == x[2] = 0

\* the fraction n/d in lowest terms; a zero d gives NaN
Frac(n, d) ==
    IF d = 0 THEN NaN
    ELSE LET g == GCD(Abs(n), Abs(d))
             sgn == IF d < 0 THEN 0 - 1 ELSE 1
         IN  <<sgn * (n \div g), sgn * (d \div g)>>

\* float(n)
R(n) == <<n, 1>>

RMul(x, y) ==
    IF IsNaN(x) \/ IsNaN(y) THEN NaN
    ELSE LET a == Frac(x[1], y[2])
             b == Frac(y[1], x[2])
         IN  Frac(a[1] * b[1], a[2] * b[2])
RDiv(x, y) ==
    IF IsNaN(x) \/ IsNaN(y) \/ y[1] = 0 THEN NaN
    ELSE RMul(x, Frac(y[2], y[1]))
RAdd(x, y) ==
    IF IsNaN(x) \/ IsNaN(y) THEN NaN
    ELSE LET g == GCD(x[2], y[2]) IN
         Frac(x[1] * (y[2] \div g) + y[1] * (x[2] \div g),
              (x[2] \div g) * y[2])
RSub(x, y) == RAdd(x, <<0 - y[1], y[2]>>)
RAbs(x) == <<Abs(x[1]), x[2]>>

\* x < y and x <= y of floats: FALSE when either side is NaN
RLt(x, y) == ~IsNaN(x) /\ ~IsNaN(y) /\ RSub(x, y)[1] < 0
RLe(x, y) == ~IsNaN(x) /\ ~IsNaN(y) /\ RSub(x, y)[1] <= 0

\* the positive fraction n/d, scaled by 2^k, rounded to the nearest number
\* of MantissaBits significant bits, ties to even
RECURSIVE RoundTo(_, _, _)
RoundTo(n, d, k) ==
    IF n < (2 ^ (MantissaBits - 1)) * d THEN RoundTo(2 * n, d, k + 1)
    ELSE IF n >= (2 ^ MantissaBits) * d THEN RoundTo(n, 2 * d, k - 1)
    ELSE LET q == n \div d
             r == n % d
             m == IF 2 * r > d \/ (2 * r = d /\ q % 2 = 1) THEN q + 1 ELSE q
         IN  IF k >= 0 THEN Frac(m, 2 ^ k) ELSE Frac(m * (2 ^ (0 - k)), 1)

\* the float nearest to x (exponents are unbounded); the drawdown
\* computation rounds with it, the other metrics are kept exact
Float(x) ==
    IF IsNaN(x) \/ x[1] = 0 THEN x
    ELSE IF x[1] > 0 THEN RoundTo(x[1], x[2], 0)
    ELSE <<0 - RoundTo(0 - x[1], x[2], 0)[1], RoundTo(0 - x[1], x[2], 0)[2]>>

\* np.sum of a float array of fewer than 8 values: they are added to acc
\* from left to right and every sum is rounded
RECURSIVE FloatSum(_, _)
FloatSum(values, acc) ==
    IF values = <<>> THEN acc
    ELSE FloatSum(Tail(values), Float(RAdd(acc, values[1])))

\* sum(...) of a sequence of numbers
RECURSIVE RSum(_)
RSum(seq) == IF seq = <<>> THEN R(0)
             ELSE RAdd(seq[1], RSum(Tail(seq)))

----------------------------------------------------------------------------
(* Calendar Provider *)

\* the model's exchange is closed every third day
IsTradingDay(d) == d % 3 # 0

\* months are four calendar days long; MonthOf is 12*year + month
MonthOf(d) == (d - 1) \div 4
MonthStart(m) == 4 * m + 1
\* Timestamp.replace(day=1)
ReplaceDay1(d) == MonthStart(MonthOf(d))

RECURSIVE SortedSeq(_)
SortedSeq(S) ==
    IF S = {} THEN <<>>
    ELSE LET m == CHOOSE x \in S : \A y \in S : x <= y
         IN <<m>> \o SortedSeq(S \ {m})

\* NYSEDateCache.get_nyse_dates / DataValidator._get_nyse_open_dates
get_nyse_dates(start, end) ==
    SortedSeq({d \in 1..NumDays : d >= start /\ d <= end /\ IsTradingDay(d)})

\* pd.date_range(start, end, freq='MS'): the month starts within [start, end]
month_starts(start, end) ==
    SortedSeq({d \in 1..NumDays : d >= start /\ d <= end /\ d = ReplaceDay1(d)})

----------------------------------------------------------------------------
(* The csv_data directory: validated input files *)

LastTradingDay == CHOOSE d \in 1..NumDays :
    IsTradingDay(d) /\ \A e \in 1..NumDays : IsTradingDay(e) => e <= d
LastMonthStart == ReplaceDay1(NumDays)

\* FilenameParser.parse: name (start - end) (frequency) (source).csv
File(source, frequency, start_date, end_date) ==
    [source |-> source, frequency |-> frequency,
     start_date |-> start_date, end_date |-> end_date]

\* a directory with daily assets of different coverage, an extended
\* variant, and two monthly assets of different coverage
StoreDirectory ==
    [n \in {"QQQ", "TQQQ", "ext_TQQQ", "CPI", "RATE"} |->
        CASE n = "QQQ"      -> File("yfinance", "daily", 1, LastTradingDay)
          [] n = "TQQQ"     -> File("yfinance", "daily", 4, LastTradingDay)
          [] n = "ext_TQQQ" -> File("yfinance", "daily", 1, LastTradingDay)
          [] n = "CPI"      -> File("FRED", "monthly", 5, LastMonthStart)
          [] n = "RATE"     -> File("FRED", "monthly", 1, LastMonthStart)]

\* cell values of the files: distinct per asset, not monotonic in time
Seed(name) ==
    CASE name = "QQQ" -> 10 [] name = "TQQQ" -> 30 [] name = "ext_TQQQ" -> 50
      [] name = "CPI" -> 70 [] name = "RATE" -> 90 [] OTHER -> 0
StoreCells ==
    [n \in DOMAIN StoreDirectory |-> [c \in {"Open", "Close", "Value"} |->
        [d \in 1..NumDays |->
            Seed(n) + ((d * d) % 7) + (IF c = "Close" THEN 1 + (d % 2) ELSE 0)]]]

\* DataManager.default_label_by_source with .get(source, 'Value')
default_label_by_source(source) ==
    IF source = "yfinance" THEN "Open" ELSE "Value"

\* the columns a source's file carries beside Date
FileColumns(source) ==
    IF source = "yfinance" THEN {"Open", "Close"} ELSE {"Value"}

\* the calendar expansion a validated table's Date column equals
\* (DataValidator._validate_daily_data / _validate_monthly_data)
ExpectedDates(f) ==
    IF f.frequency = "daily" THEN get_nyse_dates(f.start_date, f.end_date)
    ELSE month_starts(f.start_date, f.end_date)

\* pd.read_csv of a validated file: Date and the numeric columns
ReadCsv(name, f, cells) ==
    LET dates == ExpectedDates(f) IN
    [Date |-> dates,
     cols |-> [c \in FileColumns(f.source) |->
                  [j \in 1..Len(dates) |-> cells[name][c][dates[j]]]]]

\* a cell of a table as pd.read_csv returns it: a number, a null (an empty
\* field, NaN) or a string no number can be parsed from
Num(v) == [kind |-> "num", v |-> v]
Null == [kind |-> "null", v |-> 0]
Text == [kind |-> "text", v |-> 0]

\* the csv file of a validated asset, as validate_all_files reads it
CsvFile(name, f, cells) ==
    [file |-> f,
     table |-> [Date |-> ExpectedDates(f),
                cols |-> [c \in FileColumns(f.source) |->
                            [j \in 1..Len(ExpectedDates(f)) |->
                               Num(cells[name][c][ExpectedDates(f)[j]])]]]]

\* DataValidator._validate_data_quality: no column with a null, and no
\* column of non-numeric dtype that pd.to_numeric cannot convert
_validate_data_quality(dataframe) ==
    \A col \in DOMAIN dataframe.cols :
        /\ ~ \E j \in 1..Len(dataframe.cols[col]) :
                dataframe.cols[col][j].kind = "null"
        /\ ~ \E j \in 1..Len(dataframe.cols[col]) :
                dataframe.cols[col][j].kind = "text"

\* the same without the loop of lines 122-125: the lengths alone compared
ValidateDailyLengthOnly(dataframe, start_date, end_date) ==
    IF Len(get_nyse_dates(start_date, end_date)) # Len(dataframe.Date)
    THEN FALSE
    ELSE _validate_data_quality(dataframe)

\* DataValidator._validate_daily_data
_validate_daily_data(dataframe, start_date, end_date) ==
    LET expected_dates == get_nyse_dates(start_date, end_date) IN
    IF Len(expected_dates) # Len(dataframe.Date) THEN FALSE
    ELSE IF \E i \in 1..Len(expected_dates) :
               dataframe.Date[i] # expected_dates[i] THEN FALSE
    ELSE _validate_data_quality(dataframe)

\* DataValidator._validate_monthly_data
_validate_monthly_data(dataframe, start_date, end_date) ==
    LET expected_dates == month_starts(start_date, end_date) IN
    IF Len(expected_dates) # Len(dataframe.Date) THEN FALSE
    ELSE IF \E i \in 1..Len(expected_dates) :
               dataframe.Date[i] # expected_dates[i] THEN FALSE
    ELSE _validate_data_quality(dataframe)

\* DataValidator._validate_single_file: .iloc[0] of an empty table raises
\* IndexError, which the except clause of line 109 turns into False
_validate_single_file(f, dataframe) ==
    IF dataframe.Date = <<>> THEN FALSE
    ELSE IF dataframe.Date[1] # f.start_date THEN FALSE
    ELSE IF dataframe.Date[Len(dataframe.Date)] # f.end_date THEN FALSE
    ELSE IF f.frequency = "daily"
    THEN _validate_daily_data(dataframe, f.start_date, f.end_date)
    ELSE IF f.frequency = "monthly"
    THEN _validate_monthly_data(dataframe, f.start_date, f.end_date)
    ELSE FALSE

\* the table with the values of its cells, for a table of numbers
Values(dataframe) ==
    [Date |-> dataframe.Date,
     cols |-> [c \in DOMAIN dataframe.cols |->
                 [j \in 1..Len(dataframe.cols[c]) |-> dataframe.cols[c][j].v]]]

\* DataValidator.validate_all_files: (validation_success, dataframes,
\* filenames)
validate_all_files(directory) ==
    IF DOMAIN directory = {}
    THEN [is_valid |-> FALSE, dataframes |-> EmptyDict, filenames |-> EmptyDict]
    ELSE [is_valid |-> \A n \in DOMAIN directory :
                          _validate_single_file(directory[n].file,
                                                directory[n].table),
          dataframes |-> [n \in DOMAIN directory |-> directory[n].table],
          filenames |-> [n \in DOMAIN directory |-> directory[n].file]]

\* DataManager._binary_search_date: the 0-based position, or -1 where the
\* source raises ValueError
_binary_search_date(date_list, target_date) ==
    IF \E j \in 1..Len(date_list) : date_list[j] = target_date
    THEN (CHOOSE j \in 1..Len(date_list) : date_list[j] = target_date) - 1
    ELSE -1

SetMin(S) == CHOOSE x \in S : \A y \in S : x <= y
SetMax(S) == CHOOSE x \in S : \A y \in S : x >= y

----------------------------------------------------------------------------
(* DataManager construction: _load_data *)

\* the key of data_arrays: the asset's default array is <<name, "">>, the
\* cache key f"{name}_{property_name}" is <<name, property_name>>
CacheKey(name, property_name) == <<name, property_name>>

\* DataManager._create_numpy_cache
_create_numpy_cache(files, dfs) ==
    [metadata |-> [n \in DOMAIN files |-> files[n]],
     data_arrays |->
        [k \in {CacheKey(n, "") : n \in
                  {m \in DOMAIN files :
                     default_label_by_source(files[m].source)
                        \in DOMAIN dfs[m].cols}} |->
            dfs[k[1]].cols[default_label_by_source(files[k[1]].source)]],
     date_arrays |-> [n \in DOMAIN files |-> dfs[n].Date]]

\* DataManager._create_date_indices
_create_date_indices(files) ==
    LET daily_files == {n \in DOMAIN files : files[n].frequency = "daily"}
        monthly_files == {n \in DOMAIN files : files[n].frequency = "monthly"}
        ddr == IF daily_files = {} THEN <<>>
               ELSE get_nyse_dates(
                      SetMin({files[n].start_date : n \in daily_files}),
                      SetMax({files[n].end_date : n \in daily_files}))
        mdr == IF monthly_files = {} THEN <<>>
               ELSE month_starts(
                      SetMin({files[n].start_date : n \in monthly_files}),
                      SetMax({files[n].end_date : n \in monthly_files}))
    IN  [daily_date_range |-> ddr,
         monthly_date_range |-> mdr,
         daily_data_start_index |->
            [n \in daily_files |-> _binary_search_date(ddr, files[n].start_date)],
         monthly_data_start_index |->
            [n \in monthly_files |->
                _binary_search_date(mdr, ReplaceDay1(files[n].start_date))]]

\* DataManager.__init__ up to and including _load_data (lines 26-65)
_load_data(files, cells, ext, redirect, lookback) ==
    LET dfs == [n \in DOMAIN files |-> ReadCsv(n, files[n], cells)]
        np == _create_numpy_cache(files, dfs)
        di == _create_date_indices(files)
    IN  [use_extended_data |-> ext,
         redirect_dict |-> redirect,
         max_lookback_days |-> lookback,
         filenames |-> files,
         dataframes |-> dfs,
         data_arrays |-> np.data_arrays,
         date_arrays |-> np.date_arrays,
         metadata |-> np.metadata,
         daily_date_range |-> di.daily_date_range,
         monthly_date_range |-> di.monthly_date_range,
         daily_data_start_index |-> di.daily_data_start_index,
         monthly_data_start_index |-> di.monthly_data_start_index,
         original_dataframes_backup |-> EmptyDict,
         original_daily_indices_backup |-> EmptyDict,
         original_monthly_indices_backup |-> EmptyDict]

\* the DataManager object as one record
Store ==
    [use_extended_data |-> use_extended_data,
     redirect_dict |-> redirect_dict,
     max_lookback_days |-> max_lookback_days,
     filenames |-> filenames,
     dataframes |-> dataframes,
     data_arrays |-> data_arrays,
     date_arrays |-> date_arrays,
     metadata |-> metadata,
     daily_date_range |-> daily_date_range,
     monthly_date_range |-> monthly_date_range,
     daily_data_start_index |-> daily_data_start_index,
     monthly_data_start_index |-> monthly_data_start_index,
     original_dataframes_backup |-> original_dataframes_backup,
     original_daily_indices_backup |-> original_daily_indices_backup,
     original_monthly_indices_backup |-> original_monthly_indices_backup]

\* the fields of the object as constructed
StoreIs(S) ==
    /\ use_extended_data = S.use_extended_data
    /\ redirect_dict = S.redirect_dict
    /\ max_lookback_days = S.max_lookback_days
    /\ filenames = S.filenames
    /\ dataframes = S.dataframes
    /\ data_arrays = S.data_arrays
    /\ date_arrays = S.date_arrays
    /\ metadata = S.metadata
    /\ daily_date_range = S.daily_date_range
    /\ monthly_date_range = S.monthly_date_range
    /\ daily_data_start_index = S.daily_data_start_index
    /\ monthly_data_start_index = S.monthly_data_start_index
    /\ original_dataframes_backup = S.original_dataframes_backup
    /\ original_daily_indices_backup = S.original_daily_indices_backup
    /\ original_monthly_indices_backup = S.original_monthly_indices_backup

\* the fields of the object after an operation
StoreBecomes(S) ==
    /\ use_extended_data' = S.use_extended_data
    /\ redirect_dict' = S.redirect_dict
    /\ max_lookback_days' = S.max_lookback_days
    /\ filenames' = S.filenames
    /\ dataframes' = S.dataframes
    /\ data_arrays' = S.data_arrays
    /\ date_arrays' = S.date_arrays
    /\ metadata' = S.metadata
    /\ daily_date_range' = S.daily_date_range
    /\ monthly_date_range' = S.monthly_date_range
    /\ daily_data_start_index' = S.daily_data_start_index
    /\ monthly_data_start_index' = S.monthly_data_start_index
    /\ original_dataframes_backup' = S.original_dataframes_backup
    /\ original_daily_indices_backup' = S.original_daily_indices_backup
    /\ original_monthly_indices_backup' = S.original_monthly_indices_backup

----------------------------------------------------------------------------
(* Indicator Engine: TechnicalIndicators (indicators/technical.py) *)

SeqMax(seq, lo, hi) == SetMax({seq[j] : j \in lo..hi})

\* TechnicalIndicators._compute_max: rolling(window, min_periods=1).max()
\* or expanding().max() of the source's default column
_compute_max(df, source, lookback) ==
    LET default_col == default_label_by_source(source) IN
    IF default_col \notin DOMAIN df.cols THEN Raise("KeyError", default_col)
    ELSE LET col == df.cols[default_col] IN
         [kind |-> "ok", msg |-> "",
          v |-> [j \in 1..Len(col) |->
                   IF lookback > 0
                   THEN SeqMax(col, IF j - lookback + 1 < 1 THEN 1
                                    ELSE j - lookback + 1, j)
                   ELSE SeqMax(col, 1, j)]]

\* the period of re.match(r'^MA(\d+)$', indicator_name), 0 for no match
MAPeriod(indicator_name) ==
    CASE indicator_name = "MA1" -> 1 [] indicator_name = "MA2" -> 2
      [] indicator_name = "MA3" -> 3 [] indicator_name = "MA4" -> 4
      [] indicator_name = "MA5" -> 5 [] indicator_name = "MA25" -> 25
      [] indicator_name = "MA200" -> 200 [] OTHER -> 0

\* f'MA{period}'
MAName(period) ==
    CASE period = 1 -> "MA1" [] period = 2 -> "MA2" [] period = 3 -> "MA3"
      [] period = 4 -> "MA4" [] period = 5 -> "MA5" [] period = 25 -> "MA25"
      [] period = 200 -> "MA200" [] OTHER -> "MA"

\* the mean of the last period Closes, today's included, where the table
\* has Open and Close
MovingAverageOfCloses(df, source, period) ==
    IF {"Open", "Close"} \subseteq DOMAIN df.cols
    THEN Ok([j \in 1..Len(df.Date) |->
               IF j < period THEN NaN
               ELSE Float(RDiv(FloatSum([k \in 1..period |->
                                           R(df.cols["Close"][j - period + k])],
                                        R(0)),
                               R(period)))])
    ELSE Raise("KeyError", default_label_by_source(source))

\* TechnicalIndicators._compute_moving_average: today's Open and the
\* period-1 previous Closes, in float arithmetic; the rolling mean of the
\* default column where the table has no Open/Close
_compute_moving_average(df, source, period) ==
    IF {"Open", "Close"} \subseteq DOMAIN df.cols
    THEN LET n == Len(df.Date)
             open_vals == df.cols["Open"]
             close_vals == df.cols["Close"]
         IN  Ok([j \in 1..n |->
                  LET i == j - 1 IN
                  IF n < period \/ i < period - 1 THEN NaN
                  ELSE IF i = 0 THEN R(open_vals[j])
                  ELSE LET lo == IF i - (period - 1) > 0
                                 THEN i - (period - 1) ELSE 0
                           past_sum == FloatSum([k \in 1..(i - lo) |->
                                                   R(close_vals[lo + k])],
                                                R(0))
                       IN  Float(RDiv(Float(RAdd(R(open_vals[j]), past_sum)),
                                      R(period)))])
    ELSE LET default_col == default_label_by_source(source) IN
         IF default_col \notin DOMAIN df.cols
         THEN Raise("KeyError", default_col)
         ELSE LET col == df.cols[default_col] IN
              Ok([j \in 1..Len(col) |->
                    IF j < period THEN NaN
                    ELSE RDiv(RSum([k \in 1..period |->
                                      R(col[j - period + k])]),
                              R(period))])

\* the same with a fall-through: a name that matches no indicator gets the
\* rolling maximum
ComputeWithFallThrough(df, source, lookback, indicator_name) ==
    IF MAPeriod(indicator_name) > 0
    THEN _compute_moving_average(df, source, MAPeriod(indicator_name))
    ELSE _compute_max(df, source, lookback)

\* TechnicalIndicators.compute_indicator: kind "None" is the source's
\* return None for a name it does not recognise
compute_indicator(df, source, lookback, indicator_name) ==
    IF indicator_name = "MAX" THEN _compute_max(df, source, lookback)
    ELSE IF MAPeriod(indicator_name) > 0
    THEN _compute_moving_average(df, source, MAPeriod(indicator_name))
    ELSE Raise("None", indicator_name)

----------------------------------------------------------------------------
(* DataManager.get_data_accessor and the accessor get_value *)

\* f"ext_{name}"
ExtName(name) ==
    CASE name = "QQQ" -> "ext_QQQ" [] name = "TQQQ" -> "ext_TQQQ"
      [] name = "PSQ" -> "ext_PSQ" [] name = "SPY" -> "ext_SPY"
      [] OTHER -> "ext_"

\* get_data_accessor, lines 187-200: the closure's captured values; ok is
\* FALSE where _binary_search_date raises ValueError and no accessor exists
get_data_accessor(S, backtest_start_date) ==
    LET has_daily == S.daily_date_range # <<>>
        has_monthly == S.monthly_date_range # <<>>
        dsi == _binary_search_date(S.daily_date_range, backtest_start_date)
        msi == _binary_search_date(S.monthly_date_range,
                                   ReplaceDay1(backtest_start_date))
    IN  [ok |-> (has_daily => dsi >= 0) /\ (has_monthly => msi >= 0),
         start_date |-> backtest_start_date,
         has_daily |-> has_daily,
         daily_start_index |-> dsi,
         has_monthly |-> has_monthly,
         monthly_start_index |-> msi]

\* a get_value call's outcome: what it returns or raises, and the store after
Outcome(res, S) == [res |-> res, store |-> S, cached |-> FALSE]
\* the same, the cache of arrays reassigned rather than added to: the
\* default-value arrays built at construction are gone
CachedInNewDict(res, S) ==
    [res |-> res,
     store |-> [S EXCEPT !.data_arrays =
                   [k \in {key \in DOMAIN S.data_arrays : key[2] # ""} |->
                       S.data_arrays[k]]],
     cached |-> TRUE]

\* the same for a call that added an indicator column to the store
Cached(res, S) == [res |-> res, store |-> S, cached |-> TRUE]

\* DataManager._get_property_value
_get_property_value(S, name, source, data_index, property_name) ==
    LET dataframe == S.dataframes[name]
        cache_key == CacheKey(name, property_name)
    IN
    IF property_name \in DOMAIN dataframe.cols
    THEN Outcome(PyIndex(dataframe.cols[property_name], data_index), S)
    ELSE IF cache_key \in DOMAIN S.data_arrays
    THEN Outcome(PyIndex(S.data_arrays[cache_key], data_index), S)
    ELSE LET computed_values ==
                 compute_indicator(dataframe, source, S.max_lookback_days,
                                   property_name)
         IN
         IF computed_values.kind = "ok"
         THEN Cached(PyIndex(computed_values.v, data_index),
                      [S EXCEPT
                         !.dataframes[name].cols =
                             DictSet(@, property_name, computed_values.v),
                         !.data_arrays =
                             DictSet(@, cache_key, computed_values.v)])
         ELSE IF computed_values.kind = "None"
         THEN Outcome(Raise("ValueError", "Undefined property"), S)
         ELSE Outcome(Raise(computed_values.kind, computed_values.msg), S)

\* the index resolution of get_value, lines 229-242: data_index, or the
\* exception raised while resolving it
ResolveIndex(S, acc, actual_name, date_range_index) ==
    LET frequency == S.filenames[actual_name].frequency IN
    IF frequency = "daily"
    THEN IF ~acc.has_daily THEN Raise("ValueError", "No daily data")
         ELSE Ok(acc.daily_start_index + date_range_index
                 - S.daily_data_start_index[actual_name])
    ELSE IF frequency = "monthly"
    THEN IF ~acc.has_monthly THEN Raise("ValueError", "No monthly data")
         ELSE LET date1 == IF acc.has_daily
                           THEN PyIndex(S.daily_date_range,
                                        acc.daily_start_index)
                           ELSE Ok(acc.start_date)
                  date2 == IF acc.has_daily
                           THEN PyIndex(S.daily_date_range,
                                        acc.daily_start_index + date_range_index)
                           ELSE Ok(acc.start_date)
              IN  IF date1.kind # "ok" THEN date1
                  ELSE IF date2.kind # "ok" THEN date2
                  ELSE Ok(acc.monthly_start_index
                          + (MonthOf(date2.v) - MonthOf(date1.v))
                          - S.monthly_data_start_index[actual_name])
    ELSE Raise("ValueError", "Unsupported frequency")

\* the guard left out: every resolved index is let through
NoNegativeIndexGuard(data_index) == FALSE

\* the guard of get_value, lines 246-247
NegativeIndexGuard(data_index) == data_index < 0

\* the name resolution of get_value, lines 215-219
ActualName(S, name) ==
    LET ext_name == ExtName(name) IN
    IF S.use_extended_data /\ ext_name \in DOMAIN S.dataframes
    THEN ext_name ELSE name

\* the accessor get_value(name, date_range_index, optional_property)
get_value(S, acc, name, date_range_index, optional_property) ==
    LET actual_name == ActualName(S, name) IN
    IF actual_name \notin DOMAIN S.dataframes
    THEN Outcome(Raise("ValueError", "Data not found"), S)
    ELSE
    LET source == S.filenames[actual_name].source
        resolved == ResolveIndex(S, acc, actual_name, date_range_index)
        data_index == resolved.v
    IN
    IF resolved.kind # "ok" THEN Outcome(resolved, S)
    ELSE IF NegativeIndexGuard(data_index) THEN Outcome(NegativeIndexError, S)
    ELSE IF optional_property = ""
    THEN IF CacheKey(actual_name, "") \in DOMAIN S.data_arrays
         THEN Outcome(PyIndex(S.data_arrays[CacheKey(actual_name, "")],
                              data_index), S)
         ELSE LET label == default_label_by_source(source) IN
              IF label \in DOMAIN S.dataframes[actual_name].cols
              THEN Outcome(PyIndex(S.dataframes[actual_name].cols[label],
                                   data_index), S)
              ELSE Outcome(Raise("KeyError", label), S)
    ELSE IF optional_property = "Date"
    THEN IF actual_name \in DOMAIN S.date_arrays
         THEN Outcome(PyIndex(S.date_arrays[actual_name], data_index), S)
         ELSE Outcome(PyIndex(S.dataframes[actual_name].Date, data_index), S)
    ELSE _get_property_value(S, actual_name, source, data_index,
                             optional_property)

----------------------------------------------------------------------------
(* Data redirection *)

\* one iteration of the loop of _apply_redirection, lines 359-386
RedirectPair(S, original_name, new_source_name) ==
    IF original_name \in DOMAIN S.dataframes
       /\ new_source_name \in DOMAIN S.dataframes
    THEN
      LET ko == CacheKey(original_name, "")
          kn == CacheKey(new_source_name, "")
          both(d) == original_name \in DOMAIN d /\ new_source_name \in DOMAIN d
      IN
      [S EXCEPT
         !.original_dataframes_backup =
             DictSet(@, original_name, S.dataframes[original_name]),
         !.dataframes = DictSet(@, original_name, S.dataframes[new_source_name]),
         !.data_arrays =
             IF ko \in DOMAIN S.data_arrays /\ kn \in DOMAIN S.data_arrays
             THEN DictSet(@, ko, S.data_arrays[kn]) ELSE @,
         !.date_arrays =
             IF both(S.date_arrays)
             THEN DictSet(@, original_name, S.date_arrays[new_source_name])
             ELSE @,
         !.metadata =
             IF both(S.metadata)
             THEN DictSet(@, original_name, S.metadata[new_source_name])
             ELSE @,
         !.original_daily_indices_backup =
             IF both(S.daily_data_start_index)
             THEN DictSet(@, original_name,
                          S.daily_data_start_index[original_name])
             ELSE @,
         !.daily_data_start_index =
             IF both(S.daily_data_start_index)
             THEN DictSet(@, original_name,
                          S.daily_data_start_index[new_source_name])
             ELSE @,
         !.original_monthly_indices_backup =
             IF both(S.monthly_data_start_index)
             THEN DictSet(@, original_name,
                          S.monthly_data_start_index[original_name])
             ELSE @,
         !.monthly_data_start_index =
             IF both(S.monthly_data_start_index)
             THEN DictSet(@, original_name,
                          S.monthly_data_start_index[new_source_name])
             ELSE @]
    ELSE S

\* the loop left at the first pair with a name that is not loaded
RECURSIVE ApplyPairsUntilUnmatched(_, _)
ApplyPairsUntilUnmatched(S, pairs) ==
    IF pairs = <<>> THEN S
    ELSE IF Head(pairs)[1] \in DOMAIN S.dataframes
            /\ Head(pairs)[2] \in DOMAIN S.dataframes
    THEN ApplyPairsUntilUnmatched(RedirectPair(S, Head(pairs)[1], Head(pairs)[2]),
                                  Tail(pairs))
    ELSE S

\* DataManager._apply_redirection: the pairs of redirect_dict in dict order
RECURSIVE ApplyPairs(_, _)
ApplyPairs(S, pairs) ==
    IF pairs = <<>> THEN S
    ELSE ApplyPairs(RedirectPair(S, Head(pairs)[1], Head(pairs)[2]), Tail(pairs))

\* a call that returns early while a backup is held
ApplyUnlessBackedUp(S) ==
    IF DOMAIN S.original_dataframes_backup # {} THEN S
    ELSE ApplyPairs(S, S.redirect_dict)

_apply_redirection(S) == ApplyPairs(S, S.redirect_dict)

\* a restore that puts the backups back and keeps them
RestoreKeepingBackups(S) ==
    IF DOMAIN S.original_dataframes_backup # {}
    THEN [S EXCEPT
            !.dataframes = DictUpdate(@, S.original_dataframes_backup),
            !.daily_data_start_index =
                DictUpdate(@, S.original_daily_indices_backup),
            !.monthly_data_start_index =
                DictUpdate(@, S.original_monthly_indices_backup)]
    ELSE S

\* DataManager.restore_original_data
restore_original_data(S) ==
    IF DOMAIN S.original_dataframes_backup # {}
    THEN [S EXCEPT
            !.dataframes = DictUpdate(@, S.original_dataframes_backup),
            !.daily_data_start_index =
                DictUpdate(@, S.original_daily_indices_backup),
            !.monthly_data_start_index =
                DictUpdate(@, S.original_monthly_indices_backup),
            !.original_dataframes_backup = EmptyDict,
            !.original_daily_indices_backup = EmptyDict,
            !.original_monthly_indices_backup = EmptyDict]
    ELSE S

----------------------------------------------------------------------------
(* Strategies (oosit_strategies/saved): a backtest function reads the      *)
(* store through an accessor and returns date_range, portfolio_value and   *)
(* rebalancing_track, or raises                                            *)

NoException == Ok(0)

\* what a backtest call gives: kind "ok" and the returned triple, or the
\* exception it raises; store is the Data Store after the call
Returned(date_range, portfolio_value, rebalancing_track, S) ==
    [exc |-> NoException, date_range |-> date_range,
     portfolio_value |-> portfolio_value,
     rebalancing_track |-> rebalancing_track, store |-> S]
Raised(exc, S) ==
    [exc |-> exc, date_range |-> <<>>, portfolio_value |-> <<>>,
     rebalancing_track |-> <<>>, store |-> S]

\* a value read from the store as a float: indicator columns of moving
\* averages hold fractions, every other column holds whole numbers
AsNumber(property_name, v) ==
    IF MAPeriod(property_name) > 0 THEN v ELSE R(v)

\* "ALL TQQQ.py": buy at the first bar and hold
ALL_TQQQ_backtest(S, start_date, end_date, kw) ==
    LET always_ticker == "TQQQ"
        date_range == get_nyse_dates(start_date, end_date)
        acc == get_data_accessor(S, start_date)
    IN
    IF ~acc.ok THEN Raised(Raise("ValueError", "Date not found"), S)
    ELSE
    LET first == get_value(S, acc, always_ticker, 0, "").res IN
    IF first.kind # "ok" THEN Raised(first, S)
    ELSE
    LET ticker_count == RDiv(kw.seed, R(first.v))
        reads == [j \in 1..Len(date_range) |->
                     get_value(S, acc, always_ticker, j - 1, "").res]
        failed == {j \in 1..Len(date_range) : reads[j].kind # "ok"}
    IN
    IF failed # {} THEN Raised(reads[SetMin(failed)], S)
    ELSE Returned(date_range,
                  [j \in 1..Len(date_range) |->
                      RMul(ticker_count, R(reads[j].v))],
                  <<>>, S)

\* --- "250703-1-2.py": the mode-switching strategy ---

Dict1(k, v) == [x \in {k} |-> v]
Dict2(k1, v1, k2, v2) == [x \in {k1, k2} |-> IF x = k1 THEN v1 ELSE v2]

\* the locals of backtest() between two statements: the nonlocal variables
\* of reallocate and rebalance, the store the accessor reads, the pending
\* exception (NoException while none is raised), the value of the
\* expression evaluated last (val), the left operand kept for a comparison
\* (lhs) and the truth of the condition evaluated last (b)
Locals(S, kw) ==
    [store |-> S, exc |-> NoException, val |-> NaN, lhs |-> NaN, b |-> FALSE,
     modes |-> kw.modes,
     current_mode |-> "Unknown",
     net_worth |-> kw.seed,
     current_stocks |-> [t \in Range(kw.using_tickers) |-> R(0)],
     current_cash |-> kw.seed,
     in_psq_defense_mode |-> FALSE,
     current_stock_prices |-> [t \in Range(kw.using_tickers) |-> NaN],
     portfolio_value |-> <<>>,
     rebalancing_track |-> <<>>,
     normal_mode_leverage |-> NaN,
     defense_allocations |-> <<>>]

\* the locals after a get_value call gave out
AfterRead(m, property_name, out) ==
    [m EXCEPT !.store = out.store,
              !.exc = IF out.res.kind = "ok" THEN NoException ELSE out.res,
              !.val = IF out.res.kind = "ok"
                      THEN AsNumber(property_name, out.res.v) ELSE NaN]

\* get_value(name, i, property) evaluated as the next expression
GV(m, acc, name, i, property_name) ==
    IF m.exc # NoException THEN m
    ELSE AfterRead(m, property_name,
                   get_value(m.store, acc, name, i, property_name))

\* the value just read becomes the left operand of a comparison
KeepLeft(m) == [m EXCEPT !.lhs = m.val]

\* get_value(x) then get_value(y), the operands of a comparison read left
\* to right; x and y are <<name, i, property>>
ReadBoth(m, acc, x, y) ==
    GV(KeepLeft(GV(m, acc, x[1], x[2], x[3])), acc, y[1], y[2], y[3])

\* the comparison lhs op val * factor of two operands read; "near" is
\* abs(lhs - val) < 1e-6
Compared(m, op, factor) ==
    [m EXCEPT !.b =
        /\ m.exc = NoException
        /\ CASE op = "<"  -> RLt(m.lhs, RMul(m.val, factor))
             [] op = "<=" -> RLe(m.lhs, RMul(m.val, factor))
             [] op = ">"  -> RLt(RMul(m.val, factor), m.lhs)
             [] op = "near" ->
                  RLt(RAbs(RSub(m.lhs, m.val)), Frac(1, 1000000))]

\* get_value(x) < get_value(y), get_value(x) > get_value(y) and
\* get_value(x) <= get_value(y)
Less(m, acc, x, y) == Compared(ReadBoth(m, acc, x, y), "<", R(1))
Greater(m, acc, x, y) == Compared(ReadBoth(m, acc, x, y), ">", R(1))
LessEq(m, acc, x, y) == Compared(ReadBoth(m, acc, x, y), "<=", R(1))

\* the second half of a chained comparison x < y < z: z is read only when
\* x < y held, and y is not read again
ChainLess(c, acc, z) ==
    IF ~c.b THEN c
    ELSE Compared(GV(KeepLeft(c), acc, z[1], z[2], z[3]), "<", R(1))

\* get_value(x) < get_value(y) < get_value(z)
Less3(m, acc, x, y, z) == ChainLess(Less(m, acc, x, y), acc, z)

\* `c and get_value(x) > get_value(y)`, `c and get_value(x) <= get_value(y)`
AndGreater(c, acc, x, y) == IF ~c.b THEN c ELSE Greater(c, acc, x, y)
AndLessEq(c, acc, x, y) == IF ~c.b THEN c ELSE LessEq(c, acc, x, y)

\* the holdings a net worth buys under an allocation, and their value
Holdings(using_tickers, allocation, net_worth, prices) ==
    [t \in Range(using_tickers) |->
        IF t \in DOMAIN allocation
        THEN RDiv(RMul(net_worth, allocation[t]), prices[t])
        ELSE R(0)]
HoldingsValue(using_tickers, stocks, prices) ==
    RSum([k \in 1..Len(using_tickers) |->
            RMul(stocks[using_tickers[k]], prices[using_tickers[k]])])

\* lines 66-71 and 88-93: the holdings are replaced by those the net worth
\* buys under the allocation, the rest is cash
Trade(m, kw, stocks) ==
    [m EXCEPT
       !.current_stocks = stocks,
       !.current_cash =
           RSub(m.net_worth,
                HoldingsValue(kw.using_tickers, stocks,
                              m.current_stock_prices))]

\* a reallocate that trades and logs whatever the current mode is
ReallocateAnyMode(m, kw, date, updating_mode, reallocation_dict) ==
    IF m.exc # NoException THEN m
    ELSE IF m.modes[updating_mode] = reallocation_dict THEN m
    ELSE [Trade(m, kw, Holdings(kw.using_tickers, reallocation_dict,
                                m.net_worth, m.current_stock_prices))
            EXCEPT
              !.rebalancing_track = Append(@,
                  <<date, <<m.current_mode, m.modes[m.current_mode]>>,
                    <<m.current_mode, reallocation_dict>>>>),
              !.modes[updating_mode] = reallocation_dict]

\* a reallocate called with force_trigger = True: it trades and logs although
\* the mapping is the stored one
ReallocateForced(m, kw, date, updating_mode, reallocation_dict) ==
    IF m.exc # NoException THEN m
    ELSE IF updating_mode = m.current_mode
    THEN [Trade(m, kw, Holdings(kw.using_tickers, reallocation_dict,
                                m.net_worth, m.current_stock_prices))
            EXCEPT
              !.rebalancing_track = Append(@,
                  <<date, <<m.current_mode, m.modes[m.current_mode]>>,
                    <<m.current_mode, reallocation_dict>>>>),
              !.modes[updating_mode] = reallocation_dict]
    ELSE [m EXCEPT !.modes[updating_mode] = reallocation_dict]

\* reallocate(updating_mode, reallocation_dict, net_worth, idx,
\* current_mode), force_trigger left at False
reallocate(m, kw, date, updating_mode, reallocation_dict) ==
    IF m.exc # NoException THEN m
    ELSE IF m.modes[updating_mode] = reallocation_dict THEN m
    ELSE IF updating_mode = m.current_mode
    THEN [Trade(m, kw, Holdings(kw.using_tickers, reallocation_dict,
                                m.net_worth, m.current_stock_prices))
            EXCEPT
              !.rebalancing_track = Append(@,
                  <<date, <<m.current_mode, m.modes[m.current_mode]>>,
                    <<m.current_mode, reallocation_dict>>>>),
              !.modes[updating_mode] = reallocation_dict]
    ELSE [m EXCEPT !.modes[updating_mode] = reallocation_dict]

\* a rebalance that leaves the holdings of the tickers without a weight
RebalanceWeightedTickers(m, kw, date, mode_after) ==
    IF m.exc # NoException THEN m
    ELSE IF m.current_mode = mode_after THEN m
    ELSE [Trade(m, kw,
                [t \in Range(kw.using_tickers) |->
                    IF t \in DOMAIN m.modes[mode_after]
                    THEN RDiv(RMul(m.net_worth, m.modes[mode_after][t]),
                              m.current_stock_prices[t])
                    ELSE m.current_stocks[t]])
            EXCEPT
              !.in_psq_defense_mode =
                  IF m.current_mode = "Normal" /\ mode_after = "Defense"
                  THEN TRUE ELSE @,
              !.current_mode = mode_after,
              !.rebalancing_track = Append(@,
                  <<date, <<m.current_mode, m.modes[m.current_mode]>>,
                    <<mode_after, m.modes[mode_after]>>>>)]

\* rebalance(net_worth, idx, current_mode, mode_after)
rebalance(m, kw, date, mode_after) ==
    IF m.exc # NoException THEN m
    ELSE IF m.current_mode = mode_after THEN m
    ELSE [Trade(m, kw, Holdings(kw.using_tickers, m.modes[mode_after],
                                m.net_worth, m.current_stock_prices))
            EXCEPT
              !.in_psq_defense_mode =
                  IF m.current_mode = "Normal" /\ mode_after = "Defense"
                  THEN TRUE ELSE @,
              !.current_mode = mode_after,
              !.rebalancing_track = Append(@,
                  <<date, <<m.current_mode, m.modes[m.current_mode]>>,
                    <<mode_after, m.modes[mode_after]>>>>)]

\* `if <condition c>: rebalance(..., mode_after)`
IfRebalance(c, kw, date, mode_after) ==
    IF c.b THEN rebalance(c, kw, date, mode_after) ELSE c

\* `if <condition c>: rebalance(..., a)` `else: rebalance(..., b)`
IfElseRebalance(c, kw, date, mode_a, mode_b) ==
    IF c.b THEN rebalance(c, kw, date, mode_a)
    ELSE rebalance(c, kw, date, mode_b)

\* line 120: the prices of using_tickers at bar i, read in order
RECURSIVE ReadPrices(_, _, _, _, _)
ReadPrices(m, acc, using_tickers, i, k) ==
    IF k > Len(using_tickers) \/ m.exc # NoException THEN m
    ELSE ReadPrices(
           [GV(m, acc, using_tickers[k], i, "") EXCEPT
               !.current_stock_prices[using_tickers[k]] =
                   GV(m, acc, using_tickers[k], i, "").val],
           acc, using_tickers, i, k + 1)

\* lines 121-123: the bar's net worth is recorded before any trade
Valued(m, net_worth) ==
    [m EXCEPT !.net_worth = net_worth,
              !.portfolio_value = Append(@, net_worth)]
Valuation(m, kw) ==
    IF m.exc # NoException THEN m
    ELSE Valued(m, RAdd(HoldingsValue(kw.using_tickers, m.current_stocks,
                                      m.current_stock_prices),
                        m.current_cash))

\* the reads of the mode logic at bar i
Price(kw, i) == <<kw.ma_ticker, i, "">>
Center(kw, i) == <<kw.ma_ticker, i, MAName(kw.center_ma)>>
Low(kw, i) == <<kw.ma_ticker, i, MAName(kw.low_ma)>>
Dxy(kw, i) == <<"DX-Y.NYB", i, "">>
DxyCenter(kw, i) == <<"DX-Y.NYB", i, MAName(kw.center_ma)>>

\* the condition of line 126, with the short circuit of `and`
DXYCondition(m, acc, kw, i) ==
    AndLessEq(
      AndGreater(
        AndGreater([m EXCEPT !.b = i > 0], acc, Price(kw, i), Center(kw, i)),
        acc, Dxy(kw, i), DxyCenter(kw, i)),
      acc, Dxy(kw, i - 1), DxyCenter(kw, i - 1))

\* lines 132-134
NormalBranch(m, acc, kw, date, i) ==
    IfRebalance(Less(m, acc, Price(kw, i), Center(kw, i)), kw, date, "Defense")

\* lines 136-140: the second `if` sees the mode the first one left
DefenseBranch(m, acc, kw, date, i) ==
    IfRebalance(
      Less3(IfRebalance(Greater(m, acc, Price(kw, i), Center(kw, i)),
                        kw, date, "Normal"),
            acc, Low(kw, i), Price(kw, i), Center(kw, i)),
      kw, date, "Aggressive")

\* lines 142-146
AggressiveBranch(m, acc, kw, date, i) ==
    IfRebalance(
      Compared(
        ReadBoth(IfRebalance(Less3(m, acc, Price(kw, i), Low(kw, i),
                                   Center(kw, i)),
                             kw, date, "Defense"),
                 acc, Price(kw, i), <<kw.ma_ticker, i, "MAX">>),
        "near", R(1)),
      kw, date, "Normal")

\* lines 149-155 after the first condition c: the fallback of any other
\* mode, 'Unknown' at the start
UnknownElse(c, acc, kw, date, i) ==
    IF c.b THEN rebalance(c, kw, date, "Normal")
    ELSE IfElseRebalance(
           Less3(c, acc, Low(kw, i), Price(kw, i), Center(kw, i)),
           kw, date, "Aggressive", "Defense")
UnknownBranch(m, acc, kw, date, i) ==
    UnknownElse(Greater(m, acc, Price(kw, i), Center(kw, i)), acc, kw, date, i)

\* lines 126-155 after the condition of line 126 was evaluated to dxy.b
AfterDXY(dxy, acc, kw, date, i) ==
    IF dxy.b THEN rebalance(dxy, kw, date, "Aggressive")
    ELSE IF dxy.current_mode = "Normal"
    THEN NormalBranch(dxy, acc, kw, date, i)
    ELSE IF dxy.current_mode = "Defense"
    THEN DefenseBranch(dxy, acc, kw, date, i)
    ELSE IF dxy.current_mode = "Aggressive"
    THEN AggressiveBranch(dxy, acc, kw, date, i)
    ELSE UnknownBranch(dxy, acc, kw, date, i)

\* lines 126-155: the mode switching of bar i
SwitchMode(m, acc, kw, date, i) ==
    IF m.exc # NoException THEN m
    ELSE AfterDXY(DXYCondition(m, acc, kw, i), acc, kw, date, i)

\* the reads of (get_value('QQQ', i) - get_value('QQQ', i - days, MA)) /
\* get_value('QQQ', i - days, MA), in evaluation order
LookbackRead(m, acc, kw, i, days) ==
    GV(ReadBoth(m, acc, <<"QQQ", i, "">>,
                <<"QQQ", i - days, MAName(kw.center_ma)>>),
       acc, "QQQ", i - days, MAName(kw.center_ma))

\* the quotient of the operands read
LookbackReturn(t) == RDiv(RSub(t.lhs, t.val), t.val)

\* lines 158-167: the leverage chosen in the try block, or in its
\* `except IndexError`
Leverage(t, ndl) ==
    IF t.exc = NoException
    THEN IF RLt(LookbackReturn(t), ndl.last_year_qqq_threshold)
         THEN ndl.last_year_qqq_underperform
         ELSE ndl.last_year_qqq_outperform
    ELSE ndl.last_year_qqq_unknown

\* lines 170-171
NormalAllocation(normal_mode_leverage) ==
    Dict2("QQQ", RDiv(RSub(R(3), normal_mode_leverage), R(2)),
          "TQQQ", RSub(R(1), RDiv(RSub(R(3), normal_mode_leverage), R(2))))

\* lines 158-172 after the reads of the try block: an IndexError is
\* caught, any other exception leaves the function
ApplyLeverage(t, kw, date) ==
    IF t.exc # NoException /\ t.exc.kind # "IndexError" THEN t
    ELSE reallocate(
           [t EXCEPT !.exc = NoException,
                     !.normal_mode_leverage =
                         Leverage(t, kw.normal_dynamic_leverage)],
           kw, date, "Normal",
           NormalAllocation(Leverage(t, kw.normal_dynamic_leverage)))

\* lines 158-172: the dynamic leverage of the Normal mode
NormalLeverage(m, acc, kw, date, i) ==
    IF m.exc # NoException THEN m
    ELSE ApplyLeverage(
           LookbackRead(m, acc, kw, i, kw.normal_dynamic_leverage.lookback_days),
           kw, date)

\* line 180
PsqOff(c) == IF c.b THEN [c EXCEPT !.in_psq_defense_mode = FALSE] ELSE c

\* lines 175-180: the latching exit of the PSQ phase
PsqExit(m, acc, kw, i) ==
    IF m.exc # NoException \/ ~m.in_psq_defense_mode THEN m
    ELSE PsqOff(Compared(ReadBoth(m, acc, Price(kw, i), Center(kw, i)), "<",
                         RSub(R(1), kw.psq_defense_exit_threshold)))

\* lines 183-192 after the reads of the try block
SetDefenseAllocations(t, kw) ==
    IF t.exc # NoException /\ t.exc.kind # "IndexError" THEN t
    ELSE [t EXCEPT
            !.exc = NoException,
            !.defense_allocations =
                IF t.exc = NoException
                   /\ RLt(LookbackReturn(t), kw.defense_dynamic_threshold)
                THEN <<EmptyDict, Dict1("QQQ", Frac(1, 2)), Dict1("QQQ", R(1))>>
                ELSE <<Dict1("PSQ", R(1)), EmptyDict, Dict1("QQQ", R(1))>>]

\* lines 183-192: the three Defense allocations of the bar
DefenseAllocations(m, acc, kw, i) ==
    IF m.exc # NoException THEN m
    ELSE SetDefenseAllocations(
           LookbackRead(m, acc, kw, i, kw.defense_dynamic_lookback_days), kw)

\* lines 204-207
DefenseChoice(c, kw, date) ==
    IF c.b THEN reallocate(c, kw, date, "Defense", c.defense_allocations[3])
    ELSE reallocate(c, kw, date, "Defense", c.defense_allocations[2])

\* lines 194-207: the Defense mapping of the bar
DefenseReallocate(m, acc, kw, date, i) ==
    IF m.exc # NoException THEN m
    ELSE IF m.in_psq_defense_mode
    THEN reallocate(m, kw, date, "Defense", m.defense_allocations[1])
    ELSE DefenseChoice(
           Compared(ReadBoth(m, acc, Price(kw, i), Center(kw, i)), "<",
                    RSub(R(1), kw.ma200_gap_threshold_for_qqq_defense)),
           kw, date)

\* one iteration of the loop of lines 119-207
Bar(m, acc, kw, date, i) ==
    DefenseReallocate(
      DefenseAllocations(
        PsqExit(
          NormalLeverage(
            SwitchMode(
              Valuation(ReadPrices(m, acc, kw.using_tickers, i, 1), kw),
              acc, kw, date, i),
            acc, kw, date, i),
          acc, kw, i),
        acc, kw, i),
      acc, kw, date, i)

RECURSIVE Bars(_, _, _, _, _)
Bars(m, acc, kw, date_range, i) ==
    IF i >= Len(date_range) \/ m.exc # NoException THEN m
    ELSE Bars(Bar(m, acc, kw, date_range[i + 1], i), acc, kw, date_range,
              i + 1)

\* what backtest() gives once the loop has ended in m
BacktestOutcome(m, date_range) ==
    IF m.exc # NoException THEN Raised(m.exc, m.store)
    ELSE Returned(date_range, m.portfolio_value, m.rebalancing_track, m.store)

\* backtest(start_date, end_date, ...) of 250703-1-2.py
Mode_backtest(S, start_date, end_date, kw) ==
    IF ~get_data_accessor(S, start_date).ok
    THEN Raised(Raise("ValueError", "Date not found"), S)
    ELSE BacktestOutcome(
           Bars(Locals(S, kw), get_data_accessor(S, start_date), kw,
                get_nyse_dates(start_date, end_date), 0),
           get_nyse_dates(start_date, end_date))

----------------------------------------------------------------------------
(* Strategy Manager (oosit_utils/strategies/manager.py) *)

\* the strategy files under oosit_strategies/saved that the model runs
StrategyFiles == {"ALL TQQQ", "250703-1-2"}

\* the keyword defaults of a strategy's backtest function
DefaultKwargs(strategy_name) ==
    IF strategy_name = "250703-1-2"
    THEN [using_tickers |-> <<"QQQ", "TQQQ", "PSQ">>,
          modes |-> [mode \in {"Normal", "Defense", "Aggressive", "Unknown"} |->
                       CASE mode = "Normal" ->
                              Dict2("QQQ", Frac(1, 2), "TQQQ", Frac(1, 2))
                         [] mode = "Aggressive" -> Dict1("TQQQ", R(1))
                         [] OTHER -> EmptyDict],
          seed |-> R(1), low_ma |-> 25, center_ma |-> 200,
          ma_ticker |-> "SPY",
          ma200_gap_threshold_for_qqq_defense |-> Frac(1, 10),
          psq_defense_exit_threshold |-> Frac(1, 20),
          normal_dynamic_leverage |->
              [last_year_qqq_underperform |-> Frac(5, 2),
               last_year_qqq_outperform |-> Frac(3, 2),
               last_year_qqq_unknown |-> R(2),
               last_year_qqq_threshold |-> Frac(3, 20),
               lookback_days |-> 252],
          defense_dynamic_lookback_days |-> 756,
          defense_dynamic_threshold |-> Frac(19, 50)]
    ELSE [using_tickers |-> <<"TQQQ">>, seed |-> R(1)]

\* a list without its repeated elements, first occurrences kept: the key
\* order of a dict filled by assignments in list order
RECURSIVE DictKeys(_)
DictKeys(seq) ==
    IF seq = <<>> THEN <<>>
    ELSE LET init == DictKeys(SubSeq(seq, 1, Len(seq) - 1))
             last == seq[Len(seq)]
         IN  IF last \in Range(init) THEN init ELSE Append(init, last)

SelectSeq2(seq, S) ==
    LET Test(x) == x \in S IN SelectSeq(seq, Test)

\* StrategyManager.load_all_strategies: _import_python_files and
\* _categorize_strategies_from_target; sm is the manager's fields
load_all_strategies(sm) ==
    LET imported_modules ==
            {n \in Range(sm.target_config.default_strategies)
                   \cup Range(sm.target_config.test_strategies) :
                n \in StrategyFiles}
        defaults == SelectSeq2(sm.target_config.default_strategies,
                               imported_modules)
        tests == SelectSeq2(sm.target_config.test_strategies,
                            imported_modules)
    IN  [sm EXCEPT
           !.default_strategies = DictKeys(@ \o defaults),
           !.default_strategy_names = @ \o defaults,
           !.test_strategies = DictKeys(@ \o tests),
           !.test_strategy_names = @ \o tests]

\* StrategyManager.execute_strategy
execute_strategy(S, sm, strategy_name, start_date, end_date, kwargs) ==
    IF strategy_name \notin Range(sm.default_strategies)
                            \cup Range(sm.test_strategies)
    THEN Raised(Raise("ValueError", "Strategy not found"), S)
    ELSE LET kw == DictUpdate(DefaultKwargs(strategy_name), kwargs) IN
         IF strategy_name = "250703-1-2"
         THEN Mode_backtest(S, start_date, end_date, kw)
         ELSE ALL_TQQQ_backtest(S, start_date, end_date, kw)

----------------------------------------------------------------------------
(* Backtest Engine (oosit_utils/backtesting/engine.py) *)

BacktestPeriod(name, start_date, end_date) ==
    [name |-> name, start_date |-> start_date, end_date |-> end_date]

\* a rebalancing_log field: None, or a list of entries
NoLog == [none |-> TRUE, log |-> <<>>]
Log(entries) == [none |-> FALSE, log |-> entries]

BacktestResult(strategy_name, display_name, period_name, date_range, portfolio_values, normalized_values, total_return, max_drawdown, rebalancing_log) ==
    [strategy_name |-> strategy_name, display_name |-> display_name,
     period_name |-> period_name, date_range |-> date_range,
     portfolio_values |-> portfolio_values,
     normalized_values |-> normalized_values,
     total_return |-> total_return, max_drawdown |-> max_drawdown,
     rebalancing_log |-> rebalancing_log]

\* the values times 100, not divided by the first one
NormalizeToSeed(portfolio_values) ==
    [j \in 1..Len(portfolio_values) |-> RMul(portfolio_values[j], R(100))]

\* the values as fractions of the first one, not as percents
NormalizeToFractions(portfolio_values) ==
    IF Len(portfolio_values) = 0 THEN <<>>
    ELSE [j \in 1..Len(portfolio_values) |->
             RDiv(portfolio_values[j], portfolio_values[1])]

\* BacktestEngine._normalize_to_percents
_normalize_to_percents(portfolio_values) ==
    IF Len(portfolio_values) = 0 THEN <<>>
    ELSE LET initial_value == portfolio_values[1] IN
         [j \in 1..Len(portfolio_values) |->
             RMul(RDiv(portfolio_values[j], initial_value), R(100))]

\* BacktestEngine._calculate_return
_calculate_return(portfolio_values) ==
    IF Len(portfolio_values) < 2 THEN R(0)
    ELSE LET initial_value == portfolio_values[1]
             final_value == portfolio_values[Len(portfolio_values)]
         IN  RMul(RDiv(RSub(final_value, initial_value), initial_value),
                  R(100))

\* the running peak left at the first value
MaxDrawdownFromFirstValue(portfolio_values) ==
    IF Len(portfolio_values) = 0 THEN R(0)
    ELSE LET drawdowns ==
                 {R(0)} \cup
                 {Float(RDiv(Float(RSub(portfolio_values[1], portfolio_values[t])),
                             portfolio_values[1])) :
                    t \in 1..Len(portfolio_values)}
         IN  Float(RMul(CHOOSE x \in drawdowns :
                           \A y \in drawdowns : IsNaN(y) \/ RLe(y, x),
                        R(100)))

\* the loop of _calculate_max_drawdown from position j on; each float
\* operation rounds
RECURSIVE DrawdownLoop(_, _, _, _)
DrawdownLoop(portfolio_values, j, peak, max_drawdown) ==
    IF j > Len(portfolio_values) THEN max_drawdown
    ELSE LET value == portfolio_values[j]
             peak1 == IF RLt(peak, value) THEN value ELSE peak
             drawdown == Float(RDiv(Float(RSub(peak1, value)), peak1))
         IN  DrawdownLoop(portfolio_values, j + 1, peak1,
                          IF RLt(max_drawdown, drawdown) THEN drawdown
                          ELSE max_drawdown)

\* BacktestEngine._calculate_max_drawdown
_calculate_max_drawdown(portfolio_values) ==
    IF Len(portfolio_values) = 0 THEN R(0)
    ELSE Float(RMul(DrawdownLoop(portfolio_values, 1, portfolio_values[1],
                                 R(0)),
                    R(100)))

\* BacktestEngine._get_display_name
_get_display_name(sm, strategy_name) ==
    [default |-> strategy_name \in Range(sm.default_strategy_names),
     base_name |-> strategy_name]

\* lines 150-170 of _execute_single_backtest, run being what
\* execute_strategy gave
ResultOfRun(run, sm, strategy_name, period) ==
    [exc |-> run.exc,
     store |-> run.store,
     calls |-> <<<<period.start_date, period.end_date>>>>,
     result |->
        BacktestResult(strategy_name, _get_display_name(sm, strategy_name),
                       period.name, run.date_range, run.portfolio_value,
                       _normalize_to_percents(run.portfolio_value),
                       _calculate_return(run.portfolio_value),
                       _calculate_max_drawdown(run.portfolio_value),
                       Log(run.rebalancing_track))]

\* BacktestEngine._execute_single_backtest: the result, or the exception
\* of the strategy; calls lists the strategy invocations made
_execute_single_backtest(S, sm, strategy_name, period, kwargs) ==
    ResultOfRun(execute_strategy(S, sm, strategy_name, period.start_date,
                                 period.end_date, kwargs),
                sm, strategy_name, period)

\* the scan of lines 389-397: the first index with date >= start (-1 for
\* None) and the last index with date <= end (-1 for None)
ScanStart(date_range, extract_start_date) ==
    LET hits == {i \in 0..(Len(date_range) - 1) :
                    date_range[i + 1] >= extract_start_date}
    IN  IF hits = {} THEN 0 - 1 ELSE SetMin(hits)
ScanEnd(date_range, extract_end_date) ==
    LET hits == {i \in 0..(Len(date_range) - 1) :
                    date_range[i + 1] <= extract_end_date}
    IN  IF hits = {} THEN 0 - 1 ELSE SetMax(hits)

\* the slice that stops before end_idx
ExtractSliceExclusive(seq, start_idx, end_idx) ==
    PySlice(seq, start_idx, end_idx)

\* the slice of the full series the extraction takes, lines 403-404
ExtractSlice(seq, start_idx, end_idx) == PySlice(seq, start_idx, end_idx + 1)

\* BacktestEngine._extract_period_from_full_result
_extract_period_from_full_result(full_result, period, strategy_name) ==
    LET start_idx == ScanStart(full_result.date_range, period.start_date)
        end_idx == ScanEnd(full_result.date_range, period.end_date)
        extracted_date_range ==
            ExtractSlice(full_result.date_range, start_idx, end_idx)
        extracted_portfolio_values ==
            ExtractSlice(full_result.portfolio_values, start_idx, end_idx)
        InPeriod(log_entry) == period.start_date <= log_entry[1]
                               /\ log_entry[1] <= period.end_date
        extracted_rebalancing_log ==
            IF full_result.rebalancing_log.none
               \/ full_result.rebalancing_log.log = <<>>
            THEN NoLog
            ELSE Log(SelectSeq(full_result.rebalancing_log.log, InPeriod))
    IN
    IF start_idx < 0 \/ end_idx < 0
    THEN [exc |-> Raise("ValueError", "Date range not found"),
          result |-> full_result]
    ELSE [exc |-> NoException,
          result |->
            BacktestResult(strategy_name, full_result.display_name,
                           period.name, extracted_date_range,
                           extracted_portfolio_values,
                           _normalize_to_percents(extracted_portfolio_values),
                           _calculate_return(extracted_portfolio_values),
                           _calculate_max_drawdown(extracted_portfolio_values),
                           extracted_rebalancing_log)]

\* BacktestEngine.extract_period_data on the stored results
extract_period_data(res, strategy_name, period_name, extract_start, extract_end) ==
    IF strategy_name \notin DOMAIN res
       \/ period_name \notin DOMAIN res[strategy_name]
    THEN Raise("ValueError", "No results found")
    ELSE LET result == res[strategy_name][period_name]
             start_idx == ScanStart(result.date_range, extract_start)
             end_idx == ScanEnd(result.date_range, extract_end)
         IN  IF start_idx < 0 \/ end_idx < 0
             THEN Raise("ValueError", "Date range not found")
             ELSE Ok(_normalize_to_percents(
                        ExtractSlice(result.portfolio_values, start_idx,
                                     end_idx)))

\* no summary yet
NoRebalancingLog == [dates |-> <<>>, cells |-> EmptyDict]

\* lines 318-321: the logs of a strategy's results chained in dict order,
\* Full Period first, then the sub-periods recorded; None and the empty
\* list are skipped
RECURSIVE AllLogs(_, _, _)
AllLogs(strategy_results, pds, k) ==
    IF k > Len(pds) THEN <<>>
    ELSE (IF pds[k].name \in DOMAIN strategy_results
          THEN strategy_results[pds[k].name].rebalancing_log.log
          ELSE <<>>)
         \o AllLogs(strategy_results, pds, k + 1)

\* lines 327-348: the entries of all_logs dated d, in order; their from
\* and to descriptions are the parts " | ".join puts in the two cells
Cell(all_logs, d) ==
    [from |-> [j \in 1..Len(SelectSeq(all_logs, LAMBDA e : e[1] = d)) |->
                  SelectSeq(all_logs, LAMBDA e : e[1] = d)[j][2]],
     to |-> [j \in 1..Len(SelectSeq(all_logs, LAMBDA e : e[1] = d)) |->
                SelectSeq(all_logs, LAMBDA e : e[1] = d)[j][3]]]

\* BacktestEngine._create_rebalancing_log: the sorted log dates and, per
\* strategy and date, the two cells (empty where the strategy has no entry,
\* the source's None); no column at all where there is no log date
_create_rebalancing_log(res, pds) ==
    [dates |->
        SortedSeq(UNION {{e[1] : e \in Range(AllLogs(res[n], pds, 1))} :
                         n \in DOMAIN res}),
     cells |->
        IF \A n \in DOMAIN res : AllLogs(res[n], pds, 1) = <<>>
        THEN EmptyDict
        ELSE [n \in DOMAIN res |->
                [d \in UNION {{e[1] : e \in Range(AllLogs(res[m], pds, 1))} :
                              m \in DOMAIN res} |->
                    Cell(AllLogs(res[n], pds, 1), d)]]]

----------------------------------------------------------------------------
(* run_full_backtest: the body of the strategy loop, lines 95-129 *)

\* the sub-period computed by running the strategy over the sub-period
SubPeriodRerun(S, sm, full_result, period, strategy_name, kwargs) ==
    LET run == _execute_single_backtest(S, sm, strategy_name, period, kwargs)
    IN  [exc |-> run.exc, result |-> run.result, calls |-> run.calls]

\* lines 110-121 for one sub-period: the extraction from the full result;
\* calls lists the strategy invocations made for the sub-period
SubPeriodResult(S, sm, full_result, period, strategy_name, kwargs) ==
    LET ex == _extract_period_from_full_result(full_result, period,
                                               strategy_name)
    IN  [exc |-> ex.exc, result |-> ex.result, calls |-> <<>>]

\* the loop of lines 109-121 from the k-th period on
RECURSIVE SubPeriodLoop(_, _, _, _, _, _, _, _)
SubPeriodLoop(acc, S, sm, full_result, pds, k, strategy_name, kwargs) ==
    IF k > Len(pds) THEN acc
    ELSE LET r == SubPeriodResult(S, sm, full_result, pds[k], strategy_name,
                                  kwargs)
         IN  SubPeriodLoop(
               [strategy_results |->
                   IF r.exc = NoException
                   THEN DictSet(acc.strategy_results, pds[k].name, r.result)
                   ELSE acc.strategy_results,
                calls |-> acc.calls \o r.calls],
               S, sm, full_result, pds, k + 1, strategy_name, kwargs)

\* a handler that catches ValueError only
CaughtValueErrorOnly(exc) == exc.kind = "ValueError"

\* `except Exception` of line 123
CaughtByLoop(exc) == TRUE

\* lines 102-103
KwargsFor(strategy_params, strategy_name) ==
    IF strategy_name \in DOMAIN strategy_params
    THEN strategy_params[strategy_name] ELSE EmptyDict

\* line 129, sub being what the loop over the sub-periods left
Recorded(sub, full, strategy_name, results_so_far) ==
    [exc |-> NoException, store |-> full.store, calls |-> sub.calls,
     all_results |->
        DictSet(results_so_far, strategy_name, sub.strategy_results)]

\* lines 106-129, full being what _execute_single_backtest gave
AfterFullRun(full, sm, strategy_name, pds, kwargs, results_so_far) ==
    IF full.exc # NoException
    THEN [exc |-> full.exc, store |-> full.store, calls |-> full.calls,
          all_results |-> results_so_far]
    ELSE Recorded(
           SubPeriodLoop(
             [strategy_results |-> Dict1("Full Period", full.result),
              calls |-> full.calls],
             full.store, sm, full.result, pds, 2, strategy_name, kwargs),
           full, strategy_name, results_so_far)

\* one iteration of the loop of line 94
StrategyIteration(S, sm, strategy_name, pds, strategy_params, results_so_far) ==
    AfterFullRun(
      _execute_single_backtest(S, sm, strategy_name, pds[1],
                               KwargsFor(strategy_params, strategy_name)),
      sm, strategy_name, pds, KwargsFor(strategy_params, strategy_name),
      results_so_far)

----------------------------------------------------------------------------
(* The Data Store as a state machine *)

\* the redirect_dict configurations: none, daily to daily either way,
\* monthly to monthly, daily to monthly, an unmatched name, and an
\* unmatched pair followed by a matched one
RedirectChoices ==
    { <<>>,
      << <<"TQQQ", "QQQ">> >>,
      << <<"QQQ", "TQQQ">> >>,
      << <<"CPI", "RATE">> >>,
      << <<"TQQQ", "CPI">> >>,
      << <<"TQQQ", "MISSING">> >>,
      << <<"QQQ", "MISSING">>, <<"RATE", "CPI">> >> }

Names == {"QQQ", "TQQQ", "ext_TQQQ", "CPI", "RATE", "MISSING"}
Properties == {"", "Date", "Close", "MAX", "VOLUME"}
RelIndices == (0 - MaxRel)..MaxRel
StartDates == 1..NumDays

\* _load_data has returned: the directory held the validated files
Loaded(files, cells) ==
    /\ data_directory = [n \in DOMAIN files |-> CsvFile(n, files[n], cells)]
    /\ load_pc = "loaded"

\* the state after DataManager.__init__ ran _load_data (line 65)
InitStore ==
    \E ext \in BOOLEAN, redirect \in RedirectChoices, lookback \in {2} :
        LET S == _load_data(StoreDirectory, StoreCells, ext, redirect, lookback)
        IN  StoreIs(S) /\ loaded = S /\ Loaded(StoreDirectory, StoreCells)

\* StrategyManager.__init__ with an empty roster, BacktestEngine.__init__
\* and no run_full_backtest or backtest call under way
NoBacktest ==
    /\ frame = <<>>
    /\ bar = [start_date |-> 0, i |-> 0]
    /\ target_config = [default_strategies |-> <<>>, test_strategies |-> <<>>]
    /\ default_strategies = <<>>
    /\ test_strategies = <<>>
    /\ default_strategy_names = <<>>
    /\ test_strategy_names = <<>>
    /\ results = EmptyDict
    /\ rebalancing_log_df = NoRebalancingLog
    /\ pc = "idle"
    /\ periods = <<>>
    /\ all_strategies = <<>>
    /\ strategy_index = 0
    /\ all_results = EmptyDict
    /\ execute_strategy_calls = EmptyDict

Init ==
    /\ InitStore
    /\ hist = <<>>
    /\ NoBacktest

\* the end of DataManager.__init__, lines 68-69
Construct ==
    /\ load_pc = "loaded"
    /\ hist = <<>>
    /\ StoreBecomes(IF redirect_dict # <<>> THEN _apply_redirection(Store)
                    ELSE Store)
    /\ hist' = <<"init">>
    /\ UNCHANGED <<loadVars, strategyVars, loaded, managerVars, engineVars>>

\* a later call of _apply_redirection on the constructed store
ApplyRedirection ==
    /\ hist # <<>>
    /\ Len(hist) - 1 < MaxOps
    /\ redirect_dict # <<>>
    /\ StoreBecomes(_apply_redirection(Store))
    /\ hist' = Append(hist, "apply")
    /\ UNCHANGED <<loadVars, strategyVars, loaded, managerVars, engineVars>>

\* a call of restore_original_data
Restore ==
    /\ hist # <<>>
    /\ Len(hist) - 1 < MaxOps
    /\ StoreBecomes(restore_original_data(Store))
    /\ hist' = Append(hist, "restore")
    /\ UNCHANGED <<loadVars, strategyVars, loaded, managerVars, engineVars>>

\* a call get_data_accessor(start)(name, i, p); what it returns goes to the
\* caller, what it caches stays in the store.  A call that caches nothing
\* leaves every variable as it is: it is a stuttering step.
Read ==
    /\ hist # <<>>
    /\ \E start \in StartDates :
          LET acc == get_data_accessor(Store, start) IN
          /\ acc.ok
          /\ \E name \in Names, i \in (0 - MaxReadRel)..MaxReadRel,
                p \in Properties :
                LET out == get_value(Store, acc, name, i, p) IN
                /\ out.cached
                /\ StoreBecomes(out.store)
    /\ UNCHANGED <<loadVars, strategyVars, loaded, hist, managerVars, engineVars>>

Next == Construct \/ ApplyRedirection \/ Restore \/ Read

Spec == Init /\ [][Next]_vars

----------------------------------------------------------------------------
(* DataManager.__init__ over a directory of csv files that may be invalid *)

\* a table has at most MaxRows rows
MaxRows == 3
\* the dates written in the files and in their names are 1..MaxInputDate
MaxInputDate == 5

InputDates == 1..MaxInputDate

\* the (start_date, end_date) written in a file name: both on the
\* calendar, the start off it, the end off it
Declared == {<<1, 4>>, <<2, 4>>, <<3, 4>>, <<1, 3>>, <<1, 5>>, <<2, 5>>}

\* the Date columns of the files: up to MaxRows dates, ascending as a csv
\* file has them, or descending
DateColumns ==
    {SortedSeq(S) : S \in {T \in SUBSET InputDates : Cardinality(T) <= MaxRows}}
    \cup {[j \in 1..Cardinality(S) |-> SortedSeq(S)[Cardinality(S) + 1 - j]] :
            S \in {T \in SUBSET InputDates : Cardinality(T) <= MaxRows}}

\* nothing wrong with the cells, or one cell that is null or text
Defects(source, rows) ==
    {<<>>} \cup {<<c, j, kind>> : c \in FileColumns(source), j \in 1..rows,
                                 kind \in {"null", "text"}}

\* a table with the given Date column whose cells are numbers but for the
\* defect
CsvTable(name, source, dates, defect) ==
    [Date |-> dates,
     cols |-> [c \in FileColumns(source) |->
                 [j \in 1..Len(dates) |->
                    IF defect = <<c, j, "null">> THEN Null
                    ELSE IF defect = <<c, j, "text">> THEN Text
                    ELSE Num(Seed(name) + j)]]]

\* the files an asset may come in
InputFiles(name, source, frequencies) ==
    UNION {{[file |-> File(source, fr, de[1], de[2]),
             table |-> CsvTable(name, source, dates, defect)] :
               fr \in frequencies, de \in Declared,
               defect \in Defects(source, Len(dates))} :
           dates \in DateColumns}

\* a valid daily and a valid monthly file
ValidQQQ ==
    [file |-> File("yfinance", "daily", 1, 4),
     table |-> CsvTable("QQQ", "yfinance", <<1, 2, 4>>, <<>>)]
ValidCPI ==
    [file |-> File("FRED", "monthly", 1, 5),
     table |-> CsvTable("CPI", "FRED", <<1, 5>>, <<>>)]

\* the directories: no csv file at all, any daily (or weekly) file beside a
\* valid monthly one, any monthly file beside a valid daily one, and two
\* files that are both off
InputDirectories ==
    {EmptyDict}
    \cup {[n \in {"QQQ", "CPI"} |-> IF n = "QQQ" THEN q ELSE ValidCPI] :
            q \in InputFiles("QQQ", "yfinance", {"daily", "weekly"})}
    \cup {[n \in {"QQQ", "CPI"} |-> IF n = "QQQ" THEN ValidQQQ ELSE c] :
            c \in InputFiles("CPI", "FRED", {"monthly"})}
    \cup {[n \in {"QQQ", "CPI"} |->
             IF n = "QQQ"
             THEN [file |-> File("yfinance", "daily", 1, 4),
                   table |-> CsvTable("QQQ", "yfinance", <<1, 4>>, <<>>)]
             ELSE [file |-> File("FRED", "monthly", 1, 5),
                   table |-> CsvTable("CPI", "FRED", <<1, 5>>,
                                      <<"Value", 2, "null">>)]]}

\* the fields after lines 26-62 of DataManager.__init__
NewStore(ext, redirect, lookback) ==
    [use_extended_data |-> ext,
     redirect_dict |-> redirect,
     max_lookback_days |-> lookback,
     filenames |-> EmptyDict,
     dataframes |-> EmptyDict,
     data_arrays |-> EmptyDict,
     date_arrays |-> EmptyDict,
     metadata |-> EmptyDict,
     daily_date_range |-> <<>>,
     monthly_date_range |-> <<>>,
     daily_data_start_index |-> EmptyDict,
     monthly_data_start_index |-> EmptyDict,
     original_dataframes_backup |-> EmptyDict,
     original_daily_indices_backup |-> EmptyDict,
     original_monthly_indices_backup |-> EmptyDict]

\* DataManager.__init__ about to call _load_data (line 65)
InitLoad ==
    /\ data_directory \in InputDirectories
    /\ load_pc = "new"
    /\ \E redirect \in {<<>>, << <<"QQQ", "CPI">> >>} :
          StoreIs(NewStore(FALSE, redirect, 2))
          /\ loaded = NewStore(FALSE, redirect, 2)
    /\ hist = <<>>
    /\ NoBacktest

\* the same with the tables kept before the check of line 77
KeptThenValidated(v) ==
    /\ load_pc' = IF v.is_valid THEN "validated" ELSE "raised"
    /\ dataframes' = [n \in DOMAIN v.dataframes |-> Values(v.dataframes[n])]
    /\ filenames' = v.filenames

\* _load_data, lines 74-81: keep the tables of a valid directory, raise
\* ValueError for any other
Validated(v) ==
    IF v.is_valid
    THEN /\ load_pc' = "validated"
         /\ dataframes' = [n \in DOMAIN v.dataframes |-> Values(v.dataframes[n])]
         /\ filenames' = v.filenames
    ELSE /\ load_pc' = "raised"
         /\ UNCHANGED <<dataframes, filenames>>

ValidateAllFiles ==
    /\ load_pc = "new"
    /\ Validated(validate_all_files(data_directory))
    /\ UNCHANGED <<use_extended_data, redirect_dict, max_lookback_days,
                   data_arrays, date_arrays, metadata, daily_date_range,
                   monthly_date_range, daily_data_start_index,
                   monthly_data_start_index, original_dataframes_backup,
                   original_daily_indices_backup,
                   original_monthly_indices_backup,
                   data_directory, strategyVars, loaded, hist, managerVars, engineVars>>

\* _load_data, line 84
NumpyCached(np) ==
    /\ data_arrays' = np.data_arrays
    /\ date_arrays' = np.date_arrays
    /\ metadata' = np.metadata

CreateNumpyCache ==
    /\ load_pc = "validated"
    /\ NumpyCached(_create_numpy_cache(filenames, dataframes))
    /\ load_pc' = "cached"
    /\ UNCHANGED <<use_extended_data, redirect_dict, max_lookback_days,
                   filenames, dataframes, daily_date_range,
                   monthly_date_range, daily_data_start_index,
                   monthly_data_start_index, original_dataframes_backup,
                   original_daily_indices_backup,
                   original_monthly_indices_backup,
                   data_directory, strategyVars, loaded, hist, managerVars, engineVars>>

\* _load_data, line 87
DateIndexed(di) ==
    /\ daily_date_range' = di.daily_date_range
    /\ monthly_date_range' = di.monthly_date_range
    /\ daily_data_start_index' = di.daily_data_start_index
    /\ monthly_data_start_index' = di.monthly_data_start_index
    /\ loaded' = [Store EXCEPT
                    !.daily_date_range = di.daily_date_range,
                    !.monthly_date_range = di.monthly_date_range,
                    !.daily_data_start_index = di.daily_data_start_index,
                    !.monthly_data_start_index = di.monthly_data_start_index]

CreateDateIndices ==
    /\ load_pc = "cached"
    /\ DateIndexed(_create_date_indices(filenames))
    /\ load_pc' = "loaded"
    /\ UNCHANGED <<use_extended_data, redirect_dict, max_lookback_days,
                   filenames, dataframes, data_arrays, date_arrays, metadata,
                   original_dataframes_backup, original_daily_indices_backup,
                   original_monthly_indices_backup,
                   data_directory, strategyVars, hist, managerVars, engineVars>>

NextLoad == ValidateAllFiles \/ CreateNumpyCache \/ CreateDateIndices \/ Construct

SpecLoad == InitLoad /\ [][NextLoad]_vars

----------------------------------------------------------------------------
(* Claims about the accessor and redirection *)

\* the start dates for which get_data_accessor returns an accessor
AccessorStarts(S) == {d \in StartDates : get_data_accessor(S, d).ok}

\* the pairs of redirect_dict whose names are both loaded assets
LoadedPairs ==
    {pr \in Range(redirect_dict) :
        pr[1] \in DOMAIN dataframes /\ pr[2] \in DOMAIN dataframes}

LastOp == IF hist = <<>> THEN "none" ELSE hist[Len(hist)]

\* C1: whenever the absolute index a read resolves to is negative (for a
\* daily asset: grid index of the backtest start + i - the asset's start
\* offset), get_value raises the lookback-exceeded IndexError and caches
\* nothing; a read that returns a value resolved to a position inside
\* 0..len-1 of the series, never to one counted from its tail.
C1_NegativeIndexRaises ==
    hist # <<>> =>
    \A start \in AccessorStarts(Store) :
        LET acc == get_data_accessor(Store, start) IN
        \A name \in Names, i \in RelIndices :
            LET actual == ActualName(Store, name) IN
            actual \in DOMAIN dataframes =>
            LET resolved == ResolveIndex(Store, acc, actual, i)
                absolute == IF filenames[actual].frequency = "daily"
                            THEN acc.daily_start_index + i
                                 - daily_data_start_index[actual]
                            ELSE resolved.v
            IN  \A p \in Properties :
                  LET out == get_value(Store, acc, name, i, p) IN
                  /\ (resolved.kind = "ok" /\ absolute < 0)
                        => (out.res = NegativeIndexError /\ ~out.cached)
                  /\ out.res.kind = "ok" => (resolved.kind = "ok" /\ absolute >= 0)

\* C1 witness: a constructed store in which TQQQ, whose coverage starts
\* after the first grid date, is read at the first grid date: the read
\* resolves to a negative index and raises
C1_Witness ==
    /\ hist # <<>>
    /\ ~use_extended_data
    /\ redirect_dict = <<>>
    /\ LET acc == get_data_accessor(Store, 1) IN
       /\ acc.ok
       /\ acc.daily_start_index + 0 - daily_data_start_index["TQQQ"] < 0
       /\ get_value(Store, acc, "TQQQ", 0, "").res = NegativeIndexError

\* C2: for a monthly asset, whenever the daily grid index of the backtest
\* start plus i is negative the read raises IndexError; it never takes the
\* corresponding daily date from the tail of the daily grid.
C2_MonthlyNeverWraps ==
    hist # <<>> =>
    \A start \in AccessorStarts(Store) :
        LET acc == get_data_accessor(Store, start) IN
        \A name \in Names, i \in RelIndices :
            LET actual == ActualName(Store, name) IN
            ( /\ actual \in DOMAIN dataframes
              /\ filenames[actual].frequency = "monthly"
              /\ acc.has_daily
              /\ acc.daily_start_index + i < 0 )
            => get_value(Store, acc, name, i, "").res.kind = "IndexError"

\* C3: after apply of a map containing A -> B, both loaded, every read of
\* A gives what the same read of B gives, whenever the read of B succeeds.
C3_RedirectedReadsAgree ==
    (LastOp \in {"init", "apply"}) =>
    \A pr \in LoadedPairs :
        \A start \in AccessorStarts(Store) :
            LET acc == get_data_accessor(Store, start) IN
            \A i \in RelIndices, p \in Properties :
                LET ofB == get_value(Store, acc, pr[2], i, p).res IN
                ofB.kind = "ok" => get_value(Store, acc, pr[1], i, p).res = ofB

\* C4: after apply({A:B}) followed by restore, every read of A gives what
\* it gave on the store as loaded, before apply.
C4_RestoreRoundTrip ==
    (hist = <<"init", "restore">>) =>
    \A pr \in LoadedPairs :
        \A start \in AccessorStarts(Store) :
            \A i \in RelIndices, p \in Properties :
                get_value(Store, get_data_accessor(Store, start), pr[1], i, p).res
                = get_value(loaded, get_data_accessor(loaded, start), pr[1], i, p).res

\* the date sequences bound to a name: the table's Date column and the
\* cached date array the accessor reads
BoundDates(name) == {dataframes[name].Date} \cup
    (IF name \in DOMAIN date_arrays THEN {date_arrays[name]} ELSE {})

\* C5: in every reachable state, for every asset name, the date sequence
\* bound to the name equals the contiguous slice of its frequency's master
\* grid that starts at the asset's current start offset.
C5_StartOffsetInvariant ==
    \A name \in DOMAIN dataframes :
        LET daily == filenames[name].frequency = "daily"
            grid == IF daily THEN daily_date_range ELSE monthly_date_range
            off == IF daily THEN daily_data_start_index[name]
                   ELSE monthly_data_start_index[name]
        IN  \A dates \in BoundDates(name) :
                /\ off >= 0
                /\ off + Len(dates) <= Len(grid)
                /\ \A j \in 1..Len(dates) : dates[j] = grid[off + j]

\* C6: for an accessor created at backtest start gridDate[k] and a daily
\* asset, the 'Date' read at i gives gridDate[k+i] for every i whose grid
\* position lies inside the asset's coverage, and an asset whose coverage
\* starts after the backtest start raises the lookback-exceeded error at 0.
C6_DateRead ==
    hist # <<>> =>
    \A start \in AccessorStarts(Store) :
        LET acc == get_data_accessor(Store, start)
            k == acc.daily_start_index
        IN
        \A name \in Names :
            LET actual == ActualName(Store, name) IN
            (actual \in DOMAIN dataframes
                /\ filenames[actual].frequency = "daily") =>
            LET off == daily_data_start_index[actual]
                len == Len(dataframes[actual].Date)
            IN
            /\ \A i \in RelIndices :
                 (k + i >= off /\ k + i < off + len) =>
                 get_value(Store, acc, name, i, "Date").res
                    = Ok(daily_date_range[k + i + 1])
            /\ off > k =>
                 get_value(Store, acc, name, 0, "Date").res = NegativeIndexError

----------------------------------------------------------------------------
(* The Backtest Engine as a state machine *)

\* the Open column of the daily files the strategies read, one entry per
\* calendar day, repeated after the last entry
PriceTable(name) ==
    CASE name = "QQQ"      -> <<4, 5, 6, 5, 3, 2, 3, 5, 6, 4, 3, 5>>
      [] name = "TQQQ"     -> <<2, 4, 6, 4, 2, 1, 2, 4, 6, 3, 2, 4>>
      [] name = "PSQ"      -> <<6, 5, 4, 5, 6, 8, 6, 5, 4, 5, 6, 5>>
      [] name = "SPY"      -> <<5, 6, 4, 3, 6, 7, 5, 2, 4, 6, 3, 5>>
      [] name = "DX-Y.NYB" -> <<3, 2, 4, 5, 3, 2, 6, 4, 3, 5, 2, 4>>

EngineAssets == {"QQQ", "TQQQ", "PSQ", "SPY", "DX-Y.NYB"}

EngineCells ==
    [n \in EngineAssets |-> [c \in {"Open", "Close"} |->
        [d \in 1..NumDays |->
            PriceTable(n)[((d - 1) % Len(PriceTable(n))) + 1]
            + (IF c = "Close" /\ d % 2 = 0 THEN 1 ELSE 0)]]]

\* a csv_data directory in which the assets of late start their coverage
\* after the first grid date and those of missing have no file
EngineDirectory(late, missing) ==
    [n \in EngineAssets \ missing |->
        File("yfinance", "daily", IF n \in late THEN 4 ELSE 1, LastTradingDay)]

EngineDirectories ==
    { EngineDirectory({}, {}), EngineDirectory({"PSQ"}, {}),
      EngineDirectory({"TQQQ"}, {}), EngineDirectory({}, {"PSQ"}) }

\* jsons/target.json
TargetConfigs ==
    { [default_strategies |-> <<"250703-1-2">>,
       test_strategies |-> <<"ALL TQQQ">>],
      [default_strategies |-> <<"ALL TQQQ">>,
       test_strategies |-> <<"ALL TQQQ", "250703-1-2", "NOT SAVED">>] }

\* the strategy_params argument: the mode strategy run with windows that
\* fit the model's calendar
ScaledParams ==
    Dict1("250703-1-2",
          [low_ma |-> 2, center_ma |-> 3,
           normal_dynamic_leverage |->
              [last_year_qqq_underperform |-> Frac(5, 2),
               last_year_qqq_outperform |-> Frac(3, 2),
               last_year_qqq_unknown |-> R(2),
               last_year_qqq_threshold |-> Frac(3, 20),
               lookback_days |-> 2],
           defense_dynamic_lookback_days |-> 3])

\* the test_periods argument: no sub-period, one, or two
SubDates == {2, 3, 5, 7, NumDays}
PeriodLists ==
    {<<>>}
    \cup {<<BacktestPeriod("P1", s, e)>> : s \in SubDates, e \in SubDates}
    \cup {<<BacktestPeriod("P1", s, e), BacktestPeriod("P2", 7, NumDays)>> :
             s \in SubDates, e \in SubDates}

\* the StrategyManager object as one record
StrategyManager ==
    [target_config |-> target_config,
     default_strategies |-> default_strategies,
     test_strategies |-> test_strategies,
     default_strategy_names |-> default_strategy_names,
     test_strategy_names |-> test_strategy_names]

\* a constructed DataManager over one of the directories, a StrategyManager
\* over one of the rosters and an idle BacktestEngine
InitEngine ==
    /\ \E files \in EngineDirectories :
          LET S == _load_data(files, EngineCells, TRUE, <<>>, 2) IN
          StoreIs(S) /\ loaded = S /\ Loaded(files, EngineCells)
    /\ hist = <<"init">>
    /\ target_config \in TargetConfigs
    /\ default_strategies = <<>>
    /\ test_strategies = <<>>
    /\ default_strategy_names = <<>>
    /\ test_strategy_names = <<>>
    /\ results = EmptyDict
    /\ rebalancing_log_df = NoRebalancingLog
    /\ pc = "idle"
    /\ periods = <<>>
    /\ all_strategies = <<>>
    /\ strategy_index = 0
    /\ all_results = EmptyDict
    /\ execute_strategy_calls = EmptyDict
    /\ frame = <<>>
    /\ bar = [start_date |-> 0, i |-> 0]

\* run_full_backtest up to the strategy loop, lines 75-92
StartBacktestOver(start_dates, period_lists) ==
    /\ pc = "idle"
    /\ \E full_start_date \in start_dates, full_end_date \in {NumDays},
          test_periods \in period_lists :
          LET sm == load_all_strategies(StrategyManager)
              keys == DictKeys(sm.default_strategies \o sm.test_strategies)
          IN  /\ default_strategies' = sm.default_strategies
              /\ test_strategies' = sm.test_strategies
              /\ default_strategy_names' = sm.default_strategy_names
              /\ test_strategy_names' = sm.test_strategy_names
              /\ all_strategies' = keys
              /\ periods' = <<BacktestPeriod("Full Period", full_start_date,
                                             full_end_date)>> \o test_periods
              /\ execute_strategy_calls' = [n \in Range(keys) |-> <<>>]
    /\ all_results' = EmptyDict
    /\ strategy_index' = 0
    /\ pc' = "loop"
    /\ UNCHANGED <<storeVars, loadVars, strategyVars, loaded, hist, target_config, results,
                   rebalancing_log_df>>

\* run_full_backtest called with any of the start dates and period lists
StartBacktest ==
    /\ pc = "idle"
    /\ StartBacktestOver(StartDates, PeriodLists)

\* what one iteration of the strategy loop leaves behind, lines 94-129
Iterated(it, strategy_name) ==
    /\ StoreBecomes(it.store)
    /\ all_results' = it.all_results
    /\ execute_strategy_calls' =
          [execute_strategy_calls EXCEPT ![strategy_name] = @ \o it.calls]
    /\ pc' = IF it.exc = NoException \/ CaughtByLoop(it.exc)
             THEN "loop" ELSE "aborted"

\* one iteration of the strategy loop, lines 94-129
RunStrategy ==
    /\ pc = "loop"
    /\ strategy_index < Len(all_strategies)
    /\ Iterated(StrategyIteration(Store, StrategyManager,
                                  all_strategies[strategy_index + 1],
                                  periods, ScaledParams, all_results),
                all_strategies[strategy_index + 1])
    /\ strategy_index' = strategy_index + 1
    /\ UNCHANGED <<loadVars, strategyVars, loaded, hist, managerVars, results, rebalancing_log_df,
                   periods, all_strategies>>

\* the end of run_full_backtest, lines 131-141: the results are stored and
\* the summary is generated from them
FinishBacktest ==
    /\ pc = "loop"
    /\ strategy_index = Len(all_strategies)
    /\ results' = all_results
    /\ rebalancing_log_df' = _create_rebalancing_log(all_results, periods)
    /\ pc' = "done"
    /\ UNCHANGED <<storeVars, loadVars, strategyVars, loaded, hist, managerVars, periods,
                   all_strategies, strategy_index, all_results,
                   execute_strategy_calls>>

NextEngine == StartBacktest \/ RunStrategy \/ FinishBacktest

SpecEngine == InitEngine /\ [][NextEngine]_vars

----------------------------------------------------------------------------
(* Moving averages read from a Data Store over any Open and Close prices *)

\* the prices written in the file: a small one and the largest odd number
\* a float holds
InputPrices == {1, 2 ^ MantissaBits - 1}

TradingDays == {d \in 1..NumDays : IsTradingDay(d)}

\* the (Open, Close) of a trading day
InputBars == {<<p, p>> : p \in InputPrices} \cup
             {<<1, 2 ^ MantissaBits - 1>>}

\* the periods N of the MA<N> read
MAPeriods == {1, 3, 5}

\* one daily asset over the whole calendar
IndicatorDirectory ==
    [n \in {"QQQ"} |-> File("yfinance", "daily", 1, LastTradingDay)]

\* the file's cells: Open and Close of every trading day
IndicatorCells(bars) ==
    [n \in {"QQQ"} |-> [c \in {"Open", "Close"} |->
        [d \in 1..NumDays |->
            IF ~IsTradingDay(d) THEN 0
            ELSE IF c = "Open" THEN bars[d][1] ELSE bars[d][2]]]]

\* a DataManager constructed over the file, no backtest under way
IndicatorStore(cells) ==
    /\ StoreIs(_load_data(IndicatorDirectory, cells, FALSE, <<>>, 2))
    /\ loaded = _load_data(IndicatorDirectory, cells, FALSE, <<>>, 2)
    /\ Loaded(IndicatorDirectory, cells)
    /\ hist = <<"init">>
    /\ NoBacktest

InitIndicator ==
    \E bars \in [TradingDays -> InputBars] :
        IndicatorStore(IndicatorCells(bars))

\* get_value('QQQ', 0, 'MA<N>') through an accessor
ReadIndicator ==
    /\ \E start \in StartDates :
          LET acc == get_data_accessor(Store, start) IN
          /\ acc.ok
          /\ \E period \in MAPeriods :
                LET out == get_value(Store, acc, "QQQ", 0, MAName(period)) IN
                /\ out.cached
                /\ StoreBecomes(out.store)
    /\ UNCHANGED <<loadVars, strategyVars, loaded, hist, managerVars, engineVars>>

NextIndicator == ReadIndicator

SpecIndicator == InitIndicator /\ [][NextIndicator]_vars

----------------------------------------------------------------------------
(* The metrics of a result: _execute_single_backtest on what a strategy    *)
(* returned, and _extract_period_from_full_result on the result            *)

\* the values a strategy may return: zero, small numbers, and one more than
\* 2^MantissaBits times the smallest
InputValues == {R(0), R(1), R(2), R(3), R(2 ^ (MantissaBits + 2))}

InputSeries == UNION {[1..k -> InputValues] : k \in 0..MaxLen}

\* a constructed DataManager, StrategyManager and idle BacktestEngine
InitMetrics ==
    /\ StoreIs(_load_data(EngineDirectory({}, {}), EngineCells, TRUE, <<>>, 2))
    /\ loaded = _load_data(EngineDirectory({}, {}), EngineCells, TRUE, <<>>, 2)
    /\ Loaded(EngineDirectory({}, {}), EngineCells)
    /\ hist = <<"init">>
    /\ target_config = [default_strategies |-> <<"ALL TQQQ">>,
                        test_strategies |-> <<>>]
    /\ default_strategies = <<>>
    /\ test_strategies = <<>>
    /\ default_strategy_names = <<>>
    /\ test_strategy_names = <<>>
    /\ results = EmptyDict
    /\ rebalancing_log_df = NoRebalancingLog
    /\ pc = "idle"
    /\ periods = <<>>
    /\ all_strategies = <<>>
    /\ strategy_index = 0
    /\ all_results = EmptyDict
    /\ execute_strategy_calls = EmptyDict
    /\ frame = <<>>
    /\ bar = [start_date |-> 0, i |-> 0]

\* lines 150-170 for a strategy that returned portfolio_value over the
\* first trading days of the calendar
SingleResult(portfolio_value) ==
    ResultOfRun(Returned([j \in 1..Len(portfolio_value) |->
                             get_nyse_dates(1, NumDays)[j]],
                         portfolio_value, <<>>, Store),
                StrategyManager, "ALL TQQQ",
                BacktestPeriod("Full Period", 1, NumDays)).result

\* the result is kept; where the series starts with 0 the divisions of
\* lines 179, 189 and 203 give nan or an infinity for numpy floats (the
\* result is kept with it, NaN standing for both) and raise
\* ZeroDivisionError for Python floats
Kept(result, period_name) ==
    \/ /\ results' = DictSet(results, "ALL TQQQ",
                             DictSet(IF "ALL TQQQ" \in DOMAIN results
                                     THEN results["ALL TQQQ"] ELSE EmptyDict,
                                     period_name, result))
       /\ pc' = pc
    \/ /\ result.portfolio_values # <<>>
       /\ result.portfolio_values[1] = R(0)
       /\ pc' = "aborted"
       /\ UNCHANGED results

\* BacktestEngine._execute_single_backtest with any strategy output
ExecuteSingleBacktest ==
    /\ pc = "idle"
    /\ results = EmptyDict
    /\ \E portfolio_value \in InputSeries :
          Kept(SingleResult(portfolio_value), "Full Period")
    /\ UNCHANGED <<storeVars, loadVars, strategyVars, loaded, hist, managerVars,
                   rebalancing_log_df, periods, all_strategies,
                   strategy_index, all_results, execute_strategy_calls>>

\* the extraction returned a result, which is kept
KeptIfExtracted(x, period_name) ==
    /\ x.exc = NoException
    /\ Kept(x.result, period_name)

\* BacktestEngine._extract_period_from_full_result on the result kept
ExtractPeriod ==
    /\ pc = "idle"
    /\ "ALL TQQQ" \in DOMAIN results
    /\ "P1" \notin DOMAIN results["ALL TQQQ"]
    /\ \E start_date \in 1..NumDays, end_date \in 1..NumDays :
          KeptIfExtracted(
             _extract_period_from_full_result(
                results["ALL TQQQ"]["Full Period"],
                BacktestPeriod("P1", start_date, end_date), "ALL TQQQ"),
             "P1")
    /\ UNCHANGED <<storeVars, loadVars, strategyVars, loaded, hist, managerVars,
                   rebalancing_log_df, periods, all_strategies,
                   strategy_index, all_results, execute_strategy_calls>>

NextMetrics == ExecuteSingleBacktest \/ ExtractPeriod

SpecMetrics == InitMetrics /\ [][NextMetrics]_vars

----------------------------------------------------------------------------
(* A backtest() call of the mode strategy 250703-1-2, one loop iteration   *)
(* at a time, over any prices of the reference instrument SPY              *)

\* the (Open, Close) of SPY on a trading day: days that close where they
\* opened, within 5 percent of each other, or days that may close higher
FlatBars == {<<90, 90>>, <<94, 94>>, <<95, 95>>}
GapBars == {<<90, 90>>, <<90, 100>>, <<94, 100>>}

SpyTables == [TradingDays -> FlatBars] \cup [TradingDays -> GapBars]

\* the files' cells: SPY as drawn, the other assets as in EngineCells
StrategyCells(spy) ==
    [n \in EngineAssets |-> [c \in {"Open", "Close"} |->
        [d \in 1..NumDays |->
            IF n = "SPY" /\ IsTradingDay(d)
            THEN IF c = "Open" THEN spy[d][1] ELSE spy[d][2]
            ELSE EngineCells[n][c][d]]]]

\* every asset covers the calendar, or PSQ starts after the first date
StrategyDirectories == {EngineDirectory({}, {}), EngineDirectory({"PSQ"}, {})}

\* the start_date arguments: the first date of the calendar, and a date
\* with bars enough before it for the moving averages and the lookbacks
StrategyStarts == {1, 4}

\* the keyword arguments: the defaults, the windows scaled to the calendar
StrategyKwargs ==
    DictUpdate(DefaultKwargs("250703-1-2"),
               KwargsFor(ScaledParams, "250703-1-2"))

\* a DataManager constructed over the files, no call under way
StrategyStore(files, cells) ==
    /\ StoreIs(_load_data(files, cells, TRUE, <<>>, 2))
    /\ loaded = _load_data(files, cells, TRUE, <<>>, 2)
    /\ Loaded(files, cells)
    /\ hist = <<"init">>
    /\ NoBacktest

InitStrategy ==
    \E files \in StrategyDirectories, spy \in SpyTables :
        StrategyStore(files, StrategyCells(spy))

\* the date_range of the call under way (line 111)
DateRange == get_nyse_dates(bar.start_date, NumDays)

\* backtest(start_date, end_date, ...) up to the loop, lines 99-117
CallBacktest ==
    /\ bar.start_date = 0
    /\ \E start_date \in StrategyStarts :
          /\ get_data_accessor(Store, start_date).ok
          /\ bar' = [start_date |-> start_date, i |-> 0]
    /\ frame' = Locals(Store, StrategyKwargs)
    /\ UNCHANGED <<storeVars, loadVars, loaded, hist, managerVars, engineVars>>

\* the locals and the store an iteration leaves
Iteration(m) ==
    /\ frame' = m
    /\ StoreBecomes(m.store)

\* one iteration of the loop of lines 119-207
LoopIteration ==
    /\ bar.start_date # 0
    /\ frame.exc = NoException
    /\ bar.i < Len(DateRange)
    /\ Iteration(Bar(frame, get_data_accessor(Store, bar.start_date),
                     StrategyKwargs, DateRange[bar.i + 1], bar.i))
    /\ bar' = [bar EXCEPT !.i = @ + 1]
    /\ UNCHANGED <<loadVars, loaded, hist, managerVars, engineVars>>

NextStrategy == CallBacktest \/ LoopIteration

SpecStrategy == InitStrategy /\ [][NextStrategy]_vars

----------------------------------------------------------------------------
(* A parameter sweep: one StrategyManager loaded once and then given to a  *)
(* new BacktestEngine for every run (src/parameter_sweeper.py)             *)

\* the strategy_config of a sweep, and jsons/target.json
SweepConfigs ==
    {[default_strategies |-> <<>>, test_strategies |-> t] :
        t \in {<<"ALL TQQQ">>, <<"250703-1-2">>, <<"ALL TQQQ", "250703-1-2">>}}
    \cup TargetConfigs

\* the test periods of the sweep's configuration
SweepPeriodLists == {<<>>, <<BacktestPeriod("P1", 2, 5)>>}

InitSweep ==
    /\ StoreIs(_load_data(EngineDirectory({}, {}), EngineCells, TRUE, <<>>, 2))
    /\ loaded = _load_data(EngineDirectory({}, {}), EngineCells, TRUE, <<>>, 2)
    /\ Loaded(EngineDirectory({}, {}), EngineCells)
    /\ hist = <<"init">>
    /\ target_config \in SweepConfigs
    /\ default_strategies = <<>>
    /\ test_strategies = <<>>
    /\ default_strategy_names = <<>>
    /\ test_strategy_names = <<>>
    /\ results = EmptyDict
    /\ rebalancing_log_df = NoRebalancingLog
    /\ pc = "idle"
    /\ periods = <<>>
    /\ all_strategies = <<>>
    /\ strategy_index = 0
    /\ all_results = EmptyDict
    /\ execute_strategy_calls = EmptyDict
    /\ frame = <<>>
    /\ bar = [start_date |-> 0, i |-> 0]

\* the manager's two name lists have room for another load
BelowMaxNames ==
    Len(default_strategy_names) + Len(test_strategy_names) < MaxNames

\* strategy_manager.load_all_strategies(data_manager) called by the program
\* itself, as in line 276 of the sweeper
LoadAllStrategies ==
    /\ pc = "idle"
    /\ BelowMaxNames
    /\ default_strategies' = load_all_strategies(StrategyManager).default_strategies
    /\ test_strategies' = load_all_strategies(StrategyManager).test_strategies
    /\ default_strategy_names' =
          load_all_strategies(StrategyManager).default_strategy_names
    /\ test_strategy_names' =
          load_all_strategies(StrategyManager).test_strategy_names
    /\ UNCHANGED <<storeVars, loadVars, strategyVars, loaded, hist,
                   target_config, engineVars>>

\* engine.run_full_backtest(full_start, full_end, test_periods, ...) of
\* lines 330-333
SweepBacktest ==
    /\ BelowMaxNames
    /\ StartBacktestOver({1}, SweepPeriodLists)

\* engine = BacktestEngine(self.data_manager, custom_strategy_manager) of
\* line 323: a new engine over the same two managers
NewBacktestEngine ==
    /\ pc = "done"
    /\ results' = EmptyDict
    /\ rebalancing_log_df' = NoRebalancingLog
    /\ pc' = "idle"
    /\ periods' = <<>>
    /\ all_strategies' = <<>>
    /\ strategy_index' = 0
    /\ all_results' = EmptyDict
    /\ execute_strategy_calls' = EmptyDict
    /\ UNCHANGED <<storeVars, loadVars, strategyVars, loaded, hist,
                   managerVars>>

NextSweep ==
    \/ LoadAllStrategies
    \/ SweepBacktest
    \/ RunStrategy
    \/ FinishBacktest
    \/ NewBacktestEngine

SpecSweep == InitSweep /\ [][NextSweep]_vars

----------------------------------------------------------------------------
(* Claims about run_full_backtest *)

\* the full period of the call under way
FullPeriod == periods[1]

\* the indices of a date range whose dates are not before / not after d
NotBefore(date_range, d) == {i \in 1..Len(date_range) : date_range[i] >= d}
NotAfter(date_range, d) == {i \in 1..Len(date_range) : date_range[i] <= d}

\* seq[lo], ..., seq[hi], empty where hi < lo
FromThrough(seq, lo, hi) ==
    IF hi < lo THEN <<>> ELSE [j \in 1..(hi - lo + 1) |-> seq[lo + j - 1]]

\* the values as percents of the first one
AsPercentsOfFirst(values) ==
    [j \in 1..Len(values) |-> RMul(RDiv(values[j], values[1]), R(100))]

\* the sub-period lies inside the full window
Inside(p) ==
    /\ FullPeriod.start_date <= p.start_date
    /\ p.start_date <= p.end_date
    /\ p.end_date <= FullPeriod.end_date

\* a run of the strategy over period p alone, on the store as loaded
Independent(n, p) ==
    _execute_single_backtest(loaded, StrategyManager, n, p,
                             KwargsFor(ScaledParams, n))

\* C7: run_full_backtest invokes each loaded strategy exactly once, over
\* the full period, whatever the number of sub-periods: a strategy the loop
\* has passed was invoked once with (fullStart, fullEnd), the others not
\* yet, and every point of a sub-period result is a point of the
\* strategy's full result.
C7_EachStrategyRunOnce ==
    pc # "idle" =>
    /\ \A k \in 1..Len(all_strategies) :
          execute_strategy_calls[all_strategies[k]] =
             IF k <= strategy_index
             THEN << <<FullPeriod.start_date, FullPeriod.end_date>> >>
             ELSE <<>>
    /\ \A n \in DOMAIN all_results : \A k \in 2..Len(periods) :
          periods[k].name \in DOMAIN all_results[n] =>
             LET full == all_results[n]["Full Period"]
                 sub == all_results[n][periods[k].name]
             IN  \A j \in 1..Len(sub.date_range) :
                    \E i \in 1..Len(full.date_range) :
                       /\ full.date_range[i] = sub.date_range[j]
                       /\ full.portfolio_values[i] = sub.portfolio_values[j]

\* C7 witness: a finished call with two sub-periods in which a strategy
\* has its full result and both sub-period results after one invocation
C7_Witness ==
    /\ pc = "done"
    /\ Len(periods) = 3
    /\ \E n \in DOMAIN results :
          /\ DOMAIN results[n] = {"Full Period", "P1", "P2"}
          /\ Len(results[n]["P1"].date_range) >= 2
          /\ Len(results[n]["P2"].date_range) >= 2
          /\ Len(execute_strategy_calls[n]) = 1

\* C8 as stated: for every sub-period inside the full window, the series
\* extracted from the full result, normalized to start at 100, equals the
\* series an independent run started at the sub-period start produces on
\* those dates.
C8_ExtractionEqualsIndependentRun ==
    \A n \in DOMAIN all_results : \A k \in 2..Len(periods) :
        ( /\ Inside(periods[k])
          /\ periods[k].name \in DOMAIN all_results[n]
          /\ Independent(n, periods[k]).exc = NoException )
        => LET sub == all_results[n][periods[k].name]
               ind == Independent(n, periods[k]).result
           IN  /\ sub.date_range = ind.date_range
               /\ sub.normalized_values = ind.normalized_values

\* C8 amended: for every sub-period inside the full window, the extracted
\* series normalized to start at 100 is the full run's values on those
\* dates as percents of the full run's value on the first of them; for the
\* buy-and-hold strategy ALL TQQQ it equals the series of an independent
\* run started at the sub-period start, whenever that run succeeds.
C8_ExtractionIsRescaledFullRun ==
    \A n \in DOMAIN all_results : \A k \in 2..Len(periods) :
        ( /\ Inside(periods[k])
          /\ periods[k].name \in DOMAIN all_results[n] )
        => LET full == all_results[n]["Full Period"]
               sub == all_results[n][periods[k].name]
               lo == SetMin(NotBefore(full.date_range, periods[k].start_date))
               hi == SetMax(NotAfter(full.date_range, periods[k].end_date))
           IN  /\ sub.normalized_values =
                     AsPercentsOfFirst(FromThrough(full.portfolio_values, lo, hi))
               /\ ( /\ n = "ALL TQQQ"
                    /\ Independent(n, periods[k]).exc = NoException )
                  => /\ sub.date_range =
                           Independent(n, periods[k]).result.date_range
                     /\ sub.normalized_values =
                           Independent(n, periods[k]).result.normalized_values

\* C8 witness: a finished call in which ALL TQQQ has a sub-period result
\* of several points that starts after the full period does, at a price
\* other than the full period's first, and equals the independent run,
\* while the mode strategy's sub-period result differs from its own
C8_Witness ==
    /\ pc = "done"
    /\ Len(periods) >= 2
    /\ {"ALL TQQQ", "250703-1-2"} \subseteq DOMAIN results
    /\ Inside(periods[2])
    /\ FullPeriod.start_date < periods[2].start_date
    /\ \A n \in {"ALL TQQQ", "250703-1-2"} :
          /\ "P1" \in DOMAIN results[n]
          /\ Independent(n, periods[2]).exc = NoException
    /\ LET sub == results["ALL TQQQ"]["P1"]
           full == results["ALL TQQQ"]["Full Period"]
       IN  /\ Len(sub.date_range) >= 2
           /\ sub.portfolio_values[1] # full.portfolio_values[1]
           /\ sub.normalized_values =
                 Independent("ALL TQQQ", periods[2]).result.normalized_values
    /\ results["250703-1-2"]["P1"].normalized_values #
          Independent("250703-1-2", periods[2]).result.normalized_values

\* C9: every recorded sub-period result holds exactly the dates and raw
\* portfolio values of the full result from the first index whose date is
\* >= periodStart through the last index whose date is <= periodEnd,
\* unchanged and in order (last - first + 1 points), the full result stays
\* what the strategy's run gave, a sub-period with no such index records
\* nothing, and extract_period_data gives the same slice as percents of
\* its first value.
C9_ExtractionIsSlice ==
    \A n \in DOMAIN all_results :
        LET full == all_results[n]["Full Period"] IN
        /\ full = Independent(n, FullPeriod).result
        /\ \A k \in 2..Len(periods) :
              LET first == NotBefore(full.date_range, periods[k].start_date)
                  last == NotAfter(full.date_range, periods[k].end_date)
              IN  IF first = {} \/ last = {}
                  THEN periods[k].name \notin DOMAIN all_results[n]
                  ELSE /\ periods[k].name \in DOMAIN all_results[n]
                       /\ all_results[n][periods[k].name].date_range =
                             FromThrough(full.date_range, SetMin(first),
                                         SetMax(last))
                       /\ all_results[n][periods[k].name].portfolio_values =
                             FromThrough(full.portfolio_values, SetMin(first),
                                         SetMax(last))
                       /\ Len(all_results[n][periods[k].name].date_range) =
                             IF SetMax(last) < SetMin(first) THEN 0
                             ELSE SetMax(last) - SetMin(first) + 1
        /\ \A s \in SubDates, e \in SubDates :
              LET first == NotBefore(full.date_range, s)
                  last == NotAfter(full.date_range, e)
              IN  extract_period_data(all_results, n, "Full Period", s, e) =
                     IF first = {} \/ last = {}
                     THEN Raise("ValueError", "Date range not found")
                     ELSE Ok(AsPercentsOfFirst(
                                FromThrough(full.portfolio_values,
                                            SetMin(first), SetMax(last))))

\* C9 witness: a finished call in which a sub-period result is a slice of
\* several points that starts after the full result's first point and ends
\* before its last
C9_Witness ==
    /\ pc = "done"
    /\ \E n \in DOMAIN results :
          /\ "P1" \in DOMAIN results[n]
          /\ LET full == results[n]["Full Period"]
                 sub == results[n]["P1"]
             IN  /\ Len(sub.date_range) >= 3
                 /\ sub.date_range[1] > full.date_range[1]
                 /\ sub.date_range[Len(sub.date_range)] <
                       full.date_range[Len(full.date_range)]
                 /\ sub.portfolio_values # full.portfolio_values

\* C10: a strategy whose full-period run raises, whatever the exception,
\* never aborts the call: at its end every loaded strategy has been
\* executed once, a strategy whose run raised has no entry in the results,
\* and every other strategy has the Full Period and sub-period results it
\* has when it is run alone.
C10_ErrorIsolation ==
    /\ pc # "aborted"
    /\ pc = "done" =>
          \A n \in Range(all_strategies) :
             /\ Len(execute_strategy_calls[n]) = 1
             /\ IF Independent(n, FullPeriod).exc # NoException
                THEN n \notin DOMAIN results
                ELSE /\ n \in DOMAIN results
                     /\ "Full Period" \in DOMAIN results[n]
                     /\ results[n]["Full Period"] =
                           Independent(n, FullPeriod).result
                     /\ results[n] =
                           StrategyIteration(loaded, StrategyManager, n, periods,
                                             ScaledParams, EmptyDict).all_results[n]
                     /\ \A k \in 2..Len(periods) :
                           ( /\ NotBefore(results[n]["Full Period"].date_range,
                                          periods[k].start_date) # {}
                             /\ NotAfter(results[n]["Full Period"].date_range,
                                         periods[k].end_date) # {} )
                           => periods[k].name \in DOMAIN results[n]

\* C10 witness: a finished call in which the first strategy of the loop
\* raised the lookback-exceeded IndexError and has no results, and a later
\* strategy has its Full Period and sub-period results
C10_Witness ==
    /\ pc = "done"
    /\ Len(all_strategies) = 2
    /\ Independent(all_strategies[1], FullPeriod).exc = NegativeIndexError
    /\ all_strategies[1] \notin DOMAIN results
    /\ all_strategies[2] \in DOMAIN results
    /\ {"Full Period", "P1"} \subseteq DOMAIN results[all_strategies[2]]
    /\ Len(results[all_strategies[2]]["P1"].date_range) >= 2

\* the reallocations strategy n executed on date d, in execution order:
\* the entries of its run's rebalancing track dated d
Executed(n, d) ==
    SelectSeq(results[n]["Full Period"].rebalancing_log.log,
              LAMBDA e : e[1] = d)

\* C11: the consolidated rebalancing log has one row per distinct log date
\* in ascending order, and for each strategy the from/to cells of a row
\* hold exactly the reallocations the strategy executed on that date, each
\* once and in execution order, however many sub-periods contain the date.
C11_ConsolidatedLog ==
    pc = "done" =>
    /\ rebalancing_log_df.dates =
          SortedSeq(UNION {{e[1] : e \in
                               Range(results[n]["Full Period"].rebalancing_log.log)} :
                           n \in DOMAIN results})
    /\ \A n \in DOMAIN rebalancing_log_df.cells :
          \A d \in Range(rebalancing_log_df.dates) :
             /\ rebalancing_log_df.cells[n][d].from =
                   [j \in 1..Len(Executed(n, d)) |-> Executed(n, d)[j][2]]
             /\ rebalancing_log_df.cells[n][d].to =
                   [j \in 1..Len(Executed(n, d)) |-> Executed(n, d)[j][3]]

----------------------------------------------------------------------------
(* Claims about the shared state of the Data Store *)

\* the stores a get_value call for property p of name leaves behind where
\* it added a column, over every accessor and relative index
StoresAfterCaching(name, p) ==
    {get_value(Store, get_data_accessor(Store, start), name, i, p).store :
        <<start, i>> \in
           {si \in AccessorStarts(Store) \X RelIndices :
               get_value(Store, get_data_accessor(Store, si[1]),
                         name, si[2], p).cached}}

\* what every read through every accessor returns or raises in store S
AllReads(S) ==
    [a \in AccessorStarts(S) \X Names \X ((0 - MaxReadRel)..MaxReadRel)
           \X Properties |->
        get_value(S, get_data_accessor(S, a[1]), a[2], a[3], a[4]).res]

\* store T is store S with the column p added to the table of asset `actual`
\* and the array under the asset's cache key added, nothing else changed
OnlyMemoized(S, T, actual, p) ==
    /\ [T EXCEPT !.dataframes = S.dataframes, !.data_arrays = S.data_arrays] = S
    /\ p \notin DOMAIN S.dataframes[actual].cols
    /\ CacheKey(actual, p) \notin DOMAIN S.data_arrays
    /\ DOMAIN T.dataframes = DOMAIN S.dataframes
    /\ \A n \in DOMAIN S.dataframes \ {actual} : T.dataframes[n] = S.dataframes[n]
    /\ [T.dataframes[actual] EXCEPT !.cols = S.dataframes[actual].cols]
          = S.dataframes[actual]
    /\ DOMAIN T.dataframes[actual].cols = DOMAIN S.dataframes[actual].cols \cup {p}
    /\ \A c \in DOMAIN S.dataframes[actual].cols :
          T.dataframes[actual].cols[c] = S.dataframes[actual].cols[c]
    /\ DOMAIN T.data_arrays = DOMAIN S.data_arrays \cup {CacheKey(actual, p)}
    /\ \A k \in DOMAIN S.data_arrays : T.data_arrays[k] = S.data_arrays[k]
    /\ T.data_arrays[CacheKey(actual, p)] = T.dataframes[actual].cols[p]

HoldsSeries(df, x) ==
    /\ df.Date = x.Date
    /\ \A c \in DOMAIN x.cols : c \in DOMAIN df.cols /\ df.cols[c] = x.cols[c]

\* the start offsets store S holds for `name`, daily and monthly
Offsets(S, name) ==
    <<IF name \in DOMAIN S.daily_data_start_index
      THEN S.daily_data_start_index[name] ELSE -1,
      IF name \in DOMAIN S.monthly_data_start_index
      THEN S.monthly_data_start_index[name] ELSE -1>>

\* the offsets the backup maps of store S hold for `name`
BackedUpOffsets(S, name) ==
    <<IF name \in DOMAIN S.original_daily_indices_backup
      THEN S.original_daily_indices_backup[name] ELSE -1,
      IF name \in DOMAIN S.original_monthly_indices_backup
      THEN S.original_monthly_indices_backup[name] ELSE -1>>

\* the store after the first apply, the one __init__ makes on the loaded data
AfterFirstApply == _apply_redirection(loaded)

\* the history is construction with a redirection map (the first apply)
\* followed at once by a second apply
AppliedTwice(h) == Len(h) >= 2 /\ h[1] = "init" /\ h[2] = "apply"

\* C13: after a second apply with no restore in between, the backup held
\* for each redirected asset A is A's table as the first apply left it (the
\* substitute's series) and the offsets backed up are A's offsets after the
\* first apply; the backup maps hold one entry per redirected asset and
\* nothing else; and a restore after the second apply leaves A with the
\* series and offsets it had after the first apply, not those it was
\* loaded with.
C13_SingleBackupGeneration ==
    AppliedTwice(hist) =>
    /\ DOMAIN original_dataframes_backup \subseteq {pr[1] : pr \in LoadedPairs}
    /\ DOMAIN original_daily_indices_backup \subseteq DOMAIN original_dataframes_backup
    /\ DOMAIN original_monthly_indices_backup \subseteq DOMAIN original_dataframes_backup
    /\ \A pr \in LoadedPairs :
          /\ hist = <<"init", "apply">> =>
                /\ pr[1] \in DOMAIN original_dataframes_backup
                /\ HoldsSeries(original_dataframes_backup[pr[1]],
                               AfterFirstApply.dataframes[pr[1]])
                /\ HoldsSeries(original_dataframes_backup[pr[1]],
                               loaded.dataframes[pr[2]])
                /\ BackedUpOffsets(Store, pr[1])[1] =
                      IF Offsets(loaded, pr[1])[1] >= 0
                         /\ Offsets(loaded, pr[2])[1] >= 0
                      THEN Offsets(AfterFirstApply, pr[1])[1] ELSE -1
                /\ BackedUpOffsets(Store, pr[1])[2] =
                      IF Offsets(loaded, pr[1])[2] >= 0
                         /\ Offsets(loaded, pr[2])[2] >= 0
                      THEN Offsets(AfterFirstApply, pr[1])[2] ELSE -1
          /\ hist = <<"init", "apply", "restore">> =>
                /\ DOMAIN original_dataframes_backup = {}
                /\ HoldsSeries(dataframes[pr[1]],
                               AfterFirstApply.dataframes[pr[1]])
                /\ Offsets(Store, pr[1]) = Offsets(AfterFirstApply, pr[1])

\* C13 witness: a store applied twice and then restored, in which the
\* redirected asset holds the substitute's series and offset, which are not
\* the series and offset it was loaded with
C13_Witness ==
    /\ hist = <<"init", "apply", "restore">>
    /\ \E pr \in LoadedPairs :
          /\ dataframes[pr[1]].Date = loaded.dataframes[pr[2]].Date
          /\ dataframes[pr[1]].Date # loaded.dataframes[pr[1]].Date
          /\ Offsets(Store, pr[1]) # Offsets(loaded, pr[1])

\* C14: in every state, restore_original_data puts back under its name the
\* table and the offsets of every asset the backup maps hold, leaves the
\* tables and offsets of the other assets as they are, and leaves all three
\* backup maps empty; a second restore right after it changes no field of
\* the store: no table, offset, cached array or date array.
C14_RestoreRevertsOnce ==
    hist # <<>> =>
    LET T == restore_original_data(Store) IN
    /\ \A a \in DOMAIN original_dataframes_backup :
          T.dataframes[a] = original_dataframes_backup[a]
    /\ \A a \in DOMAIN original_daily_indices_backup :
          T.daily_data_start_index[a] = original_daily_indices_backup[a]
    /\ \A a \in DOMAIN original_monthly_indices_backup :
          T.monthly_data_start_index[a] = original_monthly_indices_backup[a]
    /\ \A a \in DOMAIN dataframes \ DOMAIN original_dataframes_backup :
          T.dataframes[a] = dataframes[a] /\ Offsets(T, a) = Offsets(Store, a)
    /\ T.original_dataframes_backup = EmptyDict
    /\ T.original_daily_indices_backup = EmptyDict
    /\ T.original_monthly_indices_backup = EmptyDict
    /\ restore_original_data(T) = T
    /\ LastOp = "restore" =>
          /\ DOMAIN original_dataframes_backup = {}
          /\ DOMAIN original_daily_indices_backup = {}
          /\ DOMAIN original_monthly_indices_backup = {}
          /\ T = Store

\* C14 witness: a store restored twice in a row after a redirection that
\* had substituted an asset's table and offset
C14_Witness ==
    /\ hist = <<"init", "restore", "restore">>
    /\ \E pr \in LoadedPairs :
          /\ AfterFirstApply.dataframes[pr[1]] # loaded.dataframes[pr[1]]
          /\ Offsets(AfterFirstApply, pr[1]) # Offsets(loaded, pr[1])
          /\ dataframes[pr[1]].Date = loaded.dataframes[pr[1]].Date
          /\ Offsets(Store, pr[1]) = Offsets(loaded, pr[1])

\* the pairs of a redirection map whose two names are both tables of S
Matched(S, pairs) ==
    SelectSeq(pairs, LAMBDA pr : pr[1] \in DOMAIN S.dataframes
                                 /\ pr[2] \in DOMAIN S.dataframes)

\* C15: applying a pair of which either name is not a loaded asset returns
\* the store as it was (no backup, no table, cached array, metadata or
\* offset changed) and raises nothing; applying the whole map gives the
\* store that applying its matched pairs alone gives, so the pairs after an
\* unmatched one are applied; and the store as constructed holds backups
\* for the original names of matched pairs only.
C15_UnmatchedPairSkipped ==
    hist # <<>> =>
    /\ \A pr \in Range(redirect_dict) :
          (pr[1] \notin DOMAIN dataframes \/ pr[2] \notin DOMAIN dataframes)
             => RedirectPair(Store, pr[1], pr[2]) = Store
    /\ _apply_redirection(Store) = ApplyPairs(Store, Matched(Store, redirect_dict))
    /\ hist = <<"init">> =>
          /\ DOMAIN original_dataframes_backup = {pr[1] : pr \in LoadedPairs}
          /\ \A pr \in LoadedPairs :
                HoldsSeries(dataframes[pr[1]], loaded.dataframes[pr[2]])
          /\ \A a \in DOMAIN dataframes \ {pr[1] : pr \in LoadedPairs} :
                /\ HoldsSeries(dataframes[a], loaded.dataframes[a])
                /\ Offsets(Store, a) = Offsets(loaded, a)
                /\ metadata[a] = loaded.metadata[a]
                /\ data_arrays[CacheKey(a, "")] = loaded.data_arrays[CacheKey(a, "")]

\* C15 witness: a store constructed with a map whose first pair names an
\* asset that is not loaded and whose second pair is matched: the second
\* pair's asset holds its substitute's table, the first pair's asset has no
\* backup and the table it was loaded with
C15_Witness ==
    /\ hist = <<"init">>
    /\ Len(redirect_dict) = 2
    /\ redirect_dict[1][2] \notin DOMAIN dataframes
    /\ redirect_dict[1][1] \in DOMAIN dataframes
    /\ redirect_dict[1][1] \notin DOMAIN original_dataframes_backup
    /\ dataframes[redirect_dict[1][1]] = loaded.dataframes[redirect_dict[1][1]]
    /\ redirect_dict[2][1] \in DOMAIN original_dataframes_backup
    /\ dataframes[redirect_dict[2][1]] = loaded.dataframes[redirect_dict[2][2]]
    /\ dataframes[redirect_dict[2][1]] # loaded.dataframes[redirect_dict[2][1]]

\* property p is neither the default, nor 'Date', nor a column of the table
\* the name resolves to, nor an indicator name compute_indicator recognises
UndefinedProperty(S, name, p) ==
    /\ p \notin {"", "Date", "MAX"}
    /\ MAPeriod(p) = 0
    /\ ActualName(S, name) \in DOMAIN S.dataframes =>
          p \notin DOMAIN S.dataframes[ActualName(S, name)].cols

\* the read reaches the property lookup: the name resolves to a loaded
\* asset and the index to a position that is not negative
ReachesLookup(S, acc, name, i) ==
    /\ ActualName(S, name) \in DOMAIN S.dataframes
    /\ ResolveIndex(S, acc, ActualName(S, name), i).kind = "ok"
    /\ ResolveIndex(S, acc, ActualName(S, name), i).v >= 0

UndefinedPropertyError == Raise("ValueError", "Undefined property")

\* C17 as stated: every read whose property name is neither 'Date', nor an
\* existing column, nor a recognised indicator raises the undefined-property
\* error and leaves the store as it was.
C17_UndefinedPropertyRaises ==
    hist # <<>> =>
    \A start \in AccessorStarts(Store), name \in Names, i \in RelIndices,
       p \in Properties :
        UndefinedProperty(Store, name, p) =>
           LET out == get_value(Store, get_data_accessor(Store, start),
                                name, i, p)
           IN  out.res = UndefinedPropertyError /\ out.store = Store

\* C17 amended: a read with such a property name raises the
\* undefined-property error when its name resolves to a loaded asset and
\* its index to a position that is not negative; otherwise it raises the
\* error of the name or index resolution, which comes first. Either way it
\* returns no value and leaves every field of the store as it was (no
\* column, no cache entry), so every read after it returns what it would
\* have returned without it.
C17_UndefinedPropertyAfterResolution ==
    hist # <<>> =>
    \A start \in AccessorStarts(Store), name \in Names, i \in RelIndices,
       p \in Properties :
        UndefinedProperty(Store, name, p) =>
           LET acc == get_data_accessor(Store, start)
               out == get_value(Store, acc, name, i, p)
           IN  /\ out.store = Store
               /\ ~out.cached
               /\ out.res.kind \in {"ValueError", "IndexError"}
               /\ ReachesLookup(Store, acc, name, i)
                     <=> out.res = UndefinedPropertyError
               /\ ActualName(Store, name) \notin DOMAIN dataframes
                     => out.res = Raise("ValueError", "Data not found")
               /\ ( /\ ActualName(Store, name) \in DOMAIN dataframes
                    /\ ~ReachesLookup(Store, acc, name, i) )
                     => out.res = ResolveIndex(Store, acc,
                                               ActualName(Store, name), i)
                        \/ out.res = NegativeIndexError

\* C17 witness: a store on which one read of an undefined property of a
\* loaded asset raises the undefined-property error and another, at an
\* index before the asset's first date, raises the lookback error
C17_Witness ==
    /\ hist # <<>>
    /\ \E start \in AccessorStarts(Store), name \in Names :
          /\ ActualName(Store, name) \in DOMAIN dataframes
          /\ UndefinedProperty(Store, name, "VOLUME")
          /\ get_value(Store, get_data_accessor(Store, start), name, 0,
                       "VOLUME").res = UndefinedPropertyError
          /\ get_value(Store, get_data_accessor(Store, start), name, 0 - MaxRel,
                       "VOLUME").res = NegativeIndexError

----------------------------------------------------------------------------
(* Claims about validation and construction *)

\* the files of the directory that fail validation
FailingFiles ==
    {n \in DOMAIN data_directory :
        ~_validate_single_file(data_directory[n].file, data_directory[n].table)}

\* C16: when at least one file of the directory fails validation,
\* DataManager.__init__ raises inside _load_data with every table, cached
\* array, date grid and start offset still empty and nothing more ever
\* happens to the object; a construction that gets past validation, and
\* every constructed store (the only source of accessors), comes from a
\* directory whose files are all valid and has its tables, caches, grids
\* and offsets built for every file, each offset the grid position of the
\* first date of the file as loaded.
C16_ConstructionFailsFast ==
    /\ (load_pc # "new" /\ FailingFiles # {}) => load_pc = "raised"
    /\ load_pc = "raised" =>
          /\ StoreIs(NewStore(use_extended_data, redirect_dict, max_lookback_days))
          /\ hist = <<>>
          /\ ~ENABLED NextLoad
    /\ load_pc \in {"validated", "cached", "loaded"} =>
          /\ FailingFiles = {}
          /\ DOMAIN dataframes = DOMAIN data_directory
    /\ hist # <<>> =>
          /\ load_pc = "loaded"
          /\ DOMAIN date_arrays = DOMAIN data_directory
          /\ DOMAIN metadata = DOMAIN data_directory
          /\ DOMAIN daily_data_start_index \cup DOMAIN monthly_data_start_index
                = DOMAIN data_directory
          /\ \A n \in DOMAIN loaded.daily_data_start_index :
                daily_date_range[loaded.daily_data_start_index[n] + 1]
                   = loaded.dataframes[n].Date[1]
          /\ \A n \in DOMAIN loaded.monthly_data_start_index :
                monthly_date_range[loaded.monthly_data_start_index[n] + 1]
                   = loaded.dataframes[n].Date[1]

\* C16 witness: a construction that raised over a directory in which one
\* file is valid and the other is not
C16_Witness ==
    /\ load_pc = "raised"
    /\ FailingFiles # {}
    /\ FailingFiles # DOMAIN data_directory

\* the table's Date column equals the calendar expansion of the declared
\* range for the declared frequency, position by position, the frequency is
\* daily or monthly, and every cell of every other column is a number
Conforms(f, table) ==
    /\ f.frequency \in {"daily", "monthly"}
    /\ Len(table.Date) = Len(ExpectedDates(f))
    /\ \A i \in 1..Len(table.Date) : table.Date[i] = ExpectedDates(f)[i]
    /\ \A c \in DOMAIN table.cols : \A j \in 1..Len(table.cols[c]) :
          table.cols[c][j].kind = "num"

\* C18 as stated: a file passes _validate_single_file exactly when its
\* dates equal the calendar expansion of the declared range position by
\* position and its other columns hold numbers only.
C18_ValidIffConforms ==
    \A n \in DOMAIN data_directory :
        _validate_single_file(data_directory[n].file, data_directory[n].table)
           <=> Conforms(data_directory[n].file, data_directory[n].table)

\* C18 amended: a file passes exactly when its table has at least one row,
\* its first and last dates are the declared start and the declared end,
\* its dates equal the calendar expansion of the declared range for the
\* declared frequency position by position, and every other column holds
\* numbers only (no null, no text); a frequency other than daily or monthly
\* never passes; and _load_data gets past validation only with a
\* directory of such files.
C18_ValidIffConformsWithEndpoints ==
    /\ \A n \in DOMAIN data_directory :
          LET f == data_directory[n].file
              table == data_directory[n].table
          IN  /\ _validate_single_file(f, table)
                    <=> /\ Conforms(f, table)
                        /\ table.Date # <<>>
                        /\ table.Date[1] = f.start_date
                        /\ table.Date[Len(table.Date)] = f.end_date
              /\ f.frequency \notin {"daily", "monthly"}
                    => ~_validate_single_file(f, table)
    /\ load_pc \in {"validated", "cached", "loaded"} =>
          \A n \in DOMAIN data_directory :
             /\ Conforms(data_directory[n].file, data_directory[n].table)
             /\ hist = <<>> =>
                   dataframes[n].Date[1] = data_directory[n].file.start_date

\* C18 witness: a construction that raised over a directory with a file
\* whose dates equal the expansion of its declared range, whose cells are
\* numbers, and whose declared start is not a date of the calendar
C18_Witness ==
    /\ load_pc = "raised"
    /\ \E n \in DOMAIN data_directory :
          /\ Conforms(data_directory[n].file, data_directory[n].table)
          /\ data_directory[n].table.Date # <<>>
          /\ data_directory[n].table.Date[1] # data_directory[n].file.start_date

----------------------------------------------------------------------------
(* Claims about the metrics *)

\* the results kept, of the full series and of the extracted one
KeptResults ==
    IF "ALL TQQQ" \in DOMAIN results
    THEN {results["ALL TQQQ"][p] : p \in DOMAIN results["ALL TQQQ"]}
    ELSE {}

Positive(values) == \A j \in 1..Len(values) : values[j][1] > 0 /\ values[j][2] > 0

NonDecreasing(values) ==
    \A j \in 1..(Len(values) - 1) : RLe(values[j], values[j + 1])

\* the maximum of value_1..value_t
RunningPeak(values, t) ==
    CHOOSE x \in {values[j] : j \in 1..t} :
        \A j \in 1..t : RLe(values[j], x)

\* (runningPeak_t - value_t)/runningPeak_t in float arithmetic
DrawdownAt(values, t) ==
    Float(RDiv(Float(RSub(RunningPeak(values, t), values[t])),
               RunningPeak(values, t)))

\* 100 times the maximum over t of the drawdown at t; 0 for no values
HundredTimesMaxDrawdown(values) ==
    IF values = <<>> THEN R(0)
    ELSE Float(RMul(CHOOSE x \in {DrawdownAt(values, t) : t \in 1..Len(values)} :
                       \A t \in 1..Len(values) : RLe(DrawdownAt(values, t), x),
                    R(100)))

\* C19 as stated: for every result whose values are positive, max_drawdown
\* is 100 times the maximum over t of (runningPeak_t - value_t)/
\* runningPeak_t, is 0 exactly when the values never decrease (and for no
\* values), and lies in [0, 100), 100 excluded.
C19_MaxDrawdownBelow100 ==
    \A r \in KeptResults :
        Positive(r.portfolio_values) =>
           /\ r.max_drawdown = HundredTimesMaxDrawdown(r.portfolio_values)
           /\ r.max_drawdown = R(0) <=> NonDecreasing(r.portfolio_values)
           /\ RLe(R(0), r.max_drawdown)
           /\ RLt(r.max_drawdown, R(100))

\* C19 amended: for every result whose values are positive, max_drawdown is
\* 100 times the maximum over t of (runningPeak_t - value_t)/runningPeak_t
\* as float arithmetic computes it, is 0 exactly when the values never
\* decrease (and for no values), and lies in [0, 100]; it is 100 exactly
\* when some value is so far below its running peak that the float
\* subtraction runningPeak_t - value_t rounds to runningPeak_t.
C19_MaxDrawdownAtMost100 ==
    \A r \in KeptResults :
        Positive(r.portfolio_values) =>
           /\ r.max_drawdown = HundredTimesMaxDrawdown(r.portfolio_values)
           /\ r.max_drawdown = R(0) <=> NonDecreasing(r.portfolio_values)
           /\ RLe(R(0), r.max_drawdown)
           /\ RLe(r.max_drawdown, R(100))
           /\ r.max_drawdown = R(100) <=>
                 \E t \in 1..Len(r.portfolio_values) :
                    Float(RSub(RunningPeak(r.portfolio_values, t),
                               r.portfolio_values[t]))
                       = RunningPeak(r.portfolio_values, t)

\* C19 witness: a result of positive values that rise and then fall, with a
\* drawdown strictly between 0 and 100 that is measured from the peak, not
\* from the first value
C19_Witness ==
    \E r \in KeptResults :
        /\ Positive(r.portfolio_values)
        /\ Len(r.portfolio_values) = MaxLen
        /\ RLt(r.portfolio_values[1], r.portfolio_values[2])
        /\ RLt(r.portfolio_values[3], r.portfolio_values[1])
        /\ RLt(R(0), r.max_drawdown)
        /\ RLt(r.max_drawdown, R(100))

\* C20 as stated: every result with a non-empty series has a normalized
\* series of the same length whose first element is 100 and whose element
\* i times value[0] is value[i] times 100; a result with an empty series has
\* an empty normalized series.
C20_NormalizedStartsAt100 ==
    \A r \in KeptResults :
        /\ Len(r.normalized_values) = Len(r.portfolio_values)
        /\ r.portfolio_values # <<>> =>
              /\ r.normalized_values[1] = R(100)
              /\ \A i \in 1..Len(r.portfolio_values) :
                    RMul(r.normalized_values[i], r.portfolio_values[1])
                       = RMul(r.portfolio_values[i], R(100))

\* C20 amended: the same for every result whose series starts with a value
\* that is not zero, full or extracted, whatever the normalized value that
\* element had in the full series; the normalized series of a series that
\* starts with zero starts with nan, not with 100 (where the division does
\* not raise).
C20_NormalizedStartsAt100UnlessZero ==
    \A r \in KeptResults :
        /\ Len(r.normalized_values) = Len(r.portfolio_values)
        /\ (r.portfolio_values # <<>> /\ r.portfolio_values[1] # R(0)) =>
              /\ r.normalized_values[1] = R(100)
              /\ \A i \in 1..Len(r.portfolio_values) :
                    RMul(r.normalized_values[i], r.portfolio_values[1])
                       = RMul(r.portfolio_values[i], R(100))
        /\ (r.portfolio_values # <<>> /\ r.portfolio_values[1] = R(0)) =>
              IsNaN(r.normalized_values[1])

\* C20 witness: an extracted result whose first value was not the first of
\* the full series and stood at another percentage there, normalized to
\* start at 100
C20_Witness ==
    /\ "ALL TQQQ" \in DOMAIN results
    /\ "P1" \in DOMAIN results["ALL TQQQ"]
    /\ Len(results["ALL TQQQ"]["Full Period"].normalized_values) = MaxLen
    /\ results["ALL TQQQ"]["Full Period"].normalized_values[2] = R(200)
    /\ results["ALL TQQQ"]["P1"].portfolio_values
          = SubSeq(results["ALL TQQQ"]["Full Period"].portfolio_values, 2, 3)
    /\ results["ALL TQQQ"]["P1"].normalized_values = <<R(100), R(50)>>

----------------------------------------------------------------------------
(* Claims about the indicators *)

\* the MA<N> columns the reads added to the table of QQQ
ComputedPeriods ==
    {period \in MAPeriods : MAName(period) \in DOMAIN dataframes["QQQ"].cols}

OpenOf(j) == R(dataframes["QQQ"].cols["Open"][j])
CloseOf(j) == R(dataframes["QQQ"].cols["Close"][j])

\* (Open[i] + sum of Close[i-N+1 .. i-1]) / N for row j = i + 1, as float
\* arithmetic computes it
OpenAndPastCloses(j, period) ==
    Float(RDiv(Float(RAdd(OpenOf(j),
                          FloatSum([k \in 1..(period - 1) |->
                                      CloseOf(j - period + k)], R(0)))),
               R(period)))

\* MA<N> is that expression from row N on and undefined before
DefinedFromOpenAndPastCloses(period) ==
    LET ma == dataframes["QQQ"].cols[MAName(period)] IN
    /\ Len(ma) = Len(dataframes["QQQ"].Date)
    /\ \A j \in 1..Len(ma) :
          IF j < period THEN IsNaN(ma[j])
          ELSE ma[j] = OpenAndPastCloses(j, period)

\* every Open and every Close of the table is v
ConstantPrice(v) ==
    \A j \in 1..Len(dataframes["QQQ"].Date) : OpenOf(j) = v /\ CloseOf(j) = v

\* C21 as stated: MA<N> at every index i >= N-1 is (Open[i] + sum of
\* Close[i-N+1 .. i-1]) / N, a value that depends on no Close[i] and no later
\* bar, and is undefined for i < N-1; on a constant-price series of value v
\* it is v at every defined index.
C21_MovingAverage ==
    \A period \in ComputedPeriods :
        /\ DefinedFromOpenAndPastCloses(period)
        /\ \A v \in {R(x) : x \in InputPrices} :
              ConstantPrice(v) =>
                 \A j \in period..Len(dataframes["QQQ"].Date) :
                    dataframes["QQQ"].cols[MAName(period)][j] = v

\* C21 amended: the same, but on a constant-price series of value v the
\* value at a defined index is v up to the rounding of the float sum: it is
\* v where every multiple k*v, k <= N, is a float, and otherwise differs from
\* v by at most v * N * 2^(1 - MantissaBits).
C21_MovingAverageUpToRounding ==
    \A period \in ComputedPeriods :
        /\ DefinedFromOpenAndPastCloses(period)
        /\ \A v \in {R(x) : x \in InputPrices} :
              ConstantPrice(v) =>
                 \A j \in period..Len(dataframes["QQQ"].Date) :
                    LET ma == dataframes["QQQ"].cols[MAName(period)][j] IN
                    /\ (\A k \in 1..period :
                           Float(RMul(R(k), v)) = RMul(R(k), v)) => ma = v
                    /\ RLe(RAbs(RSub(ma, v)),
                           RMul(v, Frac(period, 2 ^ (MantissaBits - 1))))

\* C21 witness: MA3 was read from a table whose Close differs from its Open
\* and from the Close before on rows where MA3 is defined
C21_Witness ==
    /\ 3 \in ComputedPeriods
    /\ \E j \in 3..Len(dataframes["QQQ"].Date) : OpenOf(j) # CloseOf(j)
    /\ \E j \in 3..Len(dataframes["QQQ"].Date) : CloseOf(j - 1) # CloseOf(j)

\* the indicator names the reads of the Data Store ask for
Indicators == {p \in Properties : compute_indicator(
                  [Date |-> <<>>, cols |-> [c \in {"Open"} |-> <<>>]],
                  "yfinance", 0, p).kind = "ok"}

\* store S with every memoized indicator column and cached indicator array
\* dropped: a read of an indicator computes it from the series bound to the
\* name
WithoutIndicatorCache(S) ==
    [S EXCEPT
       !.dataframes =
           [n \in DOMAIN S.dataframes |->
               [Date |-> S.dataframes[n].Date,
                cols |-> [c \in DOMAIN S.dataframes[n].cols \ Indicators |->
                            S.dataframes[n].cols[c]]]],
       !.data_arrays =
           [k \in {key \in DOMAIN S.data_arrays : key[2] \notin Indicators} |->
               S.data_arrays[k]]]

\* what the reads of the indicators return or raise in store S
IndicatorReads(S) ==
    [a \in AccessorStarts(S) \X Names \X ((0 - MaxReadRel)..MaxReadRel)
           \X Indicators |->
        get_value(S, get_data_accessor(S, a[1]), a[2], a[3], a[4]).res]

\* C22: in every state reachable through indicator reads, redirection apply
\* and restore, every read of an indicator of a name returns what the
\* indicator computed from the series now bound to the name gives: the
\* memoized columns and cached arrays never change a result.
C22_IndicatorCacheCoherent ==
    IndicatorReads(Store) = IndicatorReads(WithoutIndicatorCache(Store))

----------------------------------------------------------------------------
(* Claims about the mode strategy *)

\* a call is under way, the prices of a bar were read and nothing raised
InLoop == bar.start_date # 0 /\ bar.i >= 1 /\ frame.exc = NoException

\* the date of the bar whose iteration ran last
BarDate == DateRange[bar.i]

\* the mappings given to reallocate
InputMappings ==
    {EmptyDict, Dict1("PSQ", R(1)), Dict1("QQQ", R(1)), Dict1("QQQ", Frac(1, 2)),
     Dict2("QQQ", Frac(1, 2), "TQQQ", Frac(1, 2)),
     Dict2("QQQ", Frac(1, 4), "TQQQ", Frac(3, 4)),
     Dict2("QQQ", Frac(3, 4), "TQQQ", Frac(1, 4))}

\* the holdings are those the net worth buys under the mapping at the bar's
\* prices, 0 for a ticker without a weight, and the cash is the remainder
Reweighted(m, after, mapping) ==
    /\ \A t \in Range(StrategyKwargs.using_tickers) :
          after.current_stocks[t] =
             IF t \in DOMAIN mapping
             THEN RDiv(RMul(m.net_worth, mapping[t]), m.current_stock_prices[t])
             ELSE R(0)
    /\ RAdd(HoldingsValue(StrategyKwargs.using_tickers, after.current_stocks,
                          m.current_stock_prices),
            after.current_cash) = m.net_worth

\* holdings, cash, current mode and the log are those of m
NoTrade(m, after) ==
    /\ after.current_stocks = m.current_stocks
    /\ after.current_cash = m.current_cash
    /\ after.current_mode = m.current_mode
    /\ after.rebalancing_track = m.rebalancing_track

\* what C23 says of the locals `after` a call reallocate(mode, mapping) made
\* with the locals m
ReallocatedIfChanged(m, after, mode, mapping) ==
    /\ IF mode = m.current_mode /\ mapping # m.modes[mode]
       THEN /\ Reweighted(m, after, mapping)
            /\ after.current_mode = m.current_mode
            /\ Len(after.rebalancing_track) = Len(m.rebalancing_track) + 1
            /\ SubSeq(after.rebalancing_track, 1, Len(m.rebalancing_track))
                  = m.rebalancing_track
            /\ after.rebalancing_track[Len(after.rebalancing_track)][1] = BarDate
       ELSE NoTrade(m, after)
    /\ after.modes[mode] = mapping
    /\ \A other \in DOMAIN m.modes \ {mode} : after.modes[other] = m.modes[other]

\* C23: whatever the locals of a run are once a bar's prices are read, a call
\* reallocate(mode, mapping) without the force flag re-weights the holdings
\* and appends a log entry if and only if mode is the current mode and
\* mapping differs from the mapping stored for it; otherwise holdings, cash,
\* current mode and log are unchanged; afterwards the mapping stored for
\* mode is mapping.
C23_ReallocateIfChanged ==
    InLoop =>
       \A mode \in DOMAIN frame.modes, mapping \in InputMappings :
          ReallocatedIfChanged(
             frame,
             reallocate(frame, StrategyKwargs, BarDate, mode, mapping),
             mode, mapping)

\* C23 witness: the last entry of the log was written by reallocate: the
\* mapping of the current mode changed and the holdings are those it buys
C23_Witness ==
    /\ InLoop
    /\ frame.rebalancing_track # <<>>
    /\ LET e == frame.rebalancing_track[Len(frame.rebalancing_track)] IN
       /\ e[1] = BarDate
       /\ e[2][1] = e[3][1]
       /\ e[2][2] # e[3][2]
       /\ e[3][2] = frame.modes[frame.current_mode]
       /\ e[3][2] # EmptyDict

\* what C24 says of the locals `after` a call rebalance(..., mode_after)
\* made with the locals m
Transitioned(m, after, mode_after) ==
    IF mode_after = m.current_mode THEN after = m
    ELSE /\ Reweighted(m, after, m.modes[mode_after])
         /\ after.current_mode = mode_after
         /\ Len(after.rebalancing_track) = Len(m.rebalancing_track) + 1
         /\ SubSeq(after.rebalancing_track, 1, Len(m.rebalancing_track))
               = m.rebalancing_track
         /\ after.rebalancing_track[Len(after.rebalancing_track)][1] = BarDate
         /\ after.modes = m.modes

\* C24: whatever the locals of a run are once a bar's prices are read, a
\* rebalance from the current mode m to a different mode m' sets each held
\* quantity to netWorth * weight_m'(ticker) / price(ticker), 0 for a ticker
\* without a weight, sets the cash to the remainder, so that holdings at the
\* bar's prices plus cash are the net worth before the trade, sets the
\* current mode to m' and appends exactly one log entry dated the bar; a
\* rebalance to the current mode changes nothing.
C24_ModeTransition ==
    InLoop =>
       \A mode_after \in DOMAIN frame.modes :
          Transitioned(frame,
                       rebalance(frame, StrategyKwargs, BarDate, mode_after),
                       mode_after)

\* C24 witness: the last entry of the log was written by a rebalance from
\* Normal, where two tickers are held, to Aggressive, where one is
C24_Witness ==
    /\ InLoop
    /\ frame.rebalancing_track # <<>>
    /\ LET e == frame.rebalancing_track[Len(frame.rebalancing_track)] IN
       /\ e[1] = BarDate
       /\ e[2][1] = "Normal"
       /\ e[3][1] = "Aggressive"
       /\ frame.current_stocks["QQQ"] = R(0)
       /\ frame.current_stocks["TQQQ"] # R(0)

\* a call is under way
Called == bar.start_date # 0

\* the log of the call under way
Track == frame.rebalancing_track

\* an entry written by rebalance: the mode before is not the mode after
IsTransition(e) == e[2][1] # e[3][1]

\* the dates of the bars on which the current mode changed: current_mode is
\* assigned by rebalance only (line 94), which logs the change (line 97)
ModeChangeDates == {Track[k][1] : k \in {j \in DOMAIN Track : IsTransition(Track[j])}}

\* C25 (as stated): every entry of a strategy's log is dated on a bar on
\* which the current mode changed, so that a period without a mode
\* transition has no entry.
C25_LogOnlyOnTransitions ==
    Called => \A k \in DOMAIN Track : Track[k][1] \in ModeChangeDates

\* C25 (amended): every entry of the log is dated on a bar of the run and
\* records a change of the current mode or of the mapping of the current
\* mode: its before and after sides differ, the first entry starts from
\* Unknown with its configured mapping, each entry starts from what the entry
\* before it left, and the last entry leaves the current mode with its stored
\* mapping; so a period over which neither the current mode nor its mapping
\* changes has no entry.
C25_LogOnModeOrMappingChange ==
    (Called /\ frame.exc = NoException) =>
       /\ \A k \in DOMAIN Track :
             /\ Track[k][1] \in Range(DateRange)
             /\ Track[k][2] # Track[k][3]
             /\ Track[k][2] =
                   IF k = 1 THEN <<"Unknown", StrategyKwargs.modes["Unknown"]>>
                   ELSE Track[k - 1][3]
       /\ <<frame.current_mode, frame.modes[frame.current_mode]>> =
             IF Track = <<>> THEN <<"Unknown", StrategyKwargs.modes["Unknown"]>>
             ELSE Track[Len(Track)][3]

\* C25 witness: the log holds an entry that reallocate wrote for an unchanged
\* mode on a bar on which the mode did not change
C25_Witness ==
    /\ InLoop
    /\ \E k \in DOMAIN Track :
          /\ ~IsTransition(Track[k])
          /\ Track[k][2][2] # Track[k][3][2]
          /\ Track[k][1] \notin ModeChangeDates

\* C26: no call is ended by a lookback-exceeded error (the IndexError of a
\* negative absolute index): after every iteration the run holds a portfolio
\* value for every bar so far.
C26_LookbackErrorsCaught ==
    Called => /\ frame.exc = NoException
              /\ Len(frame.portfolio_value) = bar.i

\* the mode from which the current mode was entered
EnteredFrom ==
    LET transitions == {j \in DOMAIN Track : IsTransition(Track[j])} IN
    IF transitions = {} THEN "Unknown" ELSE Track[SetMax(transitions)][2][1]

\* C27: no transition from Aggressive or Unknown enters Defense with the
\* mapping {PSQ: 1.0}, and whenever the current mode is Defense and was
\* entered from Aggressive or Unknown, the PSQ flag is off and the Defense
\* mapping is not {PSQ: 1.0}.
C27_PsqOnlyFromNormal ==
    (Called /\ frame.exc = NoException) =>
       /\ \A k \in DOMAIN Track :
             (Track[k][2][1] \in {"Aggressive", "Unknown"}
                 /\ Track[k][3][1] = "Defense")
             => Track[k][3][2] # Dict1("PSQ", R(1))
       /\ (frame.current_mode = "Defense"
              /\ EnteredFrom \in {"Aggressive", "Unknown"})
          => /\ ~frame.in_psq_defense_mode
             /\ frame.modes["Defense"] # Dict1("PSQ", R(1))

\* C28: for every date the log holds at most one entry whose mode before is
\* not its mode after.
C28_OneTransitionPerBar ==
    Called =>
       \A j, k \in DOMAIN Track :
          (IsTransition(Track[j]) /\ IsTransition(Track[k])
              /\ Track[j][1] = Track[k][1])
          => j = k

----------------------------------------------------------------------------
(* Claims about the extraction of a period *)

\* C29: whatever full result is kept and whatever period is asked for,
\* _extract_period_from_full_result either raises or returns a result whose
\* date range is not empty and lies within the period.
C29_ExtractRaisesOrNonEmpty ==
    ("ALL TQQQ" \in DOMAIN results
        /\ "Full Period" \in DOMAIN results["ALL TQQQ"])
    => \A start_date \in 1..NumDays, end_date \in 1..NumDays :
          LET x == _extract_period_from_full_result(
                      results["ALL TQQQ"]["Full Period"],
                      BacktestPeriod("P1", start_date, end_date), "ALL TQQQ")
          IN  \/ x.exc # NoException
              \/ /\ x.result.date_range # <<>>
                 /\ \A d \in Range(x.result.date_range) :
                       start_date <= d /\ d <= end_date

----------------------------------------------------------------------------
(* Claims about the Strategy Manager *)

\* the number of places of a list that hold name
Occurrences(names, name) == Cardinality({k \in DOMAIN names : names[k] = name})

\* C30: whatever calls of load_all_strategies and run_full_backtest were
\* made on a StrategyManager, default_strategy_names and test_strategy_names
\* hold every loaded name of their roster exactly once, so that there are
\* as many names as loaded strategies.
C30_NamesExactlyOnce ==
    /\ \A name \in Range(default_strategies) :
          Occurrences(default_strategy_names, name) = 1
    /\ \A name \in Range(test_strategies) :
          Occurrences(test_strategy_names, name) = 1
    /\ Len(default_strategy_names) = Len(default_strategies)
    /\ Len(test_strategy_names) = Len(test_strategies)

====
